---- MODULE Spec2Model ----
(***************************************************************************)
(* Recursive extraction orchestrator of zp: the password retry engine of   *)
(* ArchiveExtractor (src/src/core/extractor.js) and the nested archive     *)
(* processor NestedArchiveProcessor (src/src/core/archiveProcessor.js,     *)
(* second half of the file).                                               *)
(*                                                                         *)
(* Two specifications share the actions below:                             *)
(*   SpecRetry  one extractArchive call with handleNested = false, over a  *)
(*              wide range of caller passwords, library contents and       *)
(*              maxPasswordAttempts;                                       *)
(*   Spec       one extractArchive call with nested processing, over a     *)
(*              range of depth caps, quotas, cycle detection and cleanup   *)
(*              modes.                                                     *)
(***************************************************************************)
EXTENDS Integers, Sequences, FiniteSets, TLC

(***************************************************************************)
(* Bounds of the model.                                                    *)
(***************************************************************************)
MaxProvided == 2      \* caller-supplied passwords per call (SpecRetry)
MaxStored == 2        \* entries of the password library (SpecRetry)
MaxUsage == 1         \* largest initial usageCount in the library
MaxAttemptsCfg == 3   \* maxPasswordAttempts is drawn from 0..MaxAttemptsCfg
MaxFound == 2         \* archives one extraction can leave in its output
MaxDepthCfg == 2      \* maxNestingDepth is drawn from 0..MaxDepthCfg
MaxTotalCfg == 2      \* maxTotalNestedArchives is drawn from 1..MaxTotalCfg

(***************************************************************************)
(* Values.                                                                 *)
(***************************************************************************)
Null == "null"        \* JavaScript null / undefined for strings
NullPath == <<>>      \* JavaScript null for a path

Passwords == {"p1", "p2", "p3"}

\* extractor.js:42 and archiveProcessor.js:456: the attempts cap when the
\* caller configures none
DefaultMaxPasswordAttempts == 10

Min(a, b) == IF a <= b THEN a ELSE b
Max(a, b) == IF a >= b THEN a ELSE b

Range(s) == {s[k] : k \in 1..Len(s)}

\* all sequences over S of length at most n
SeqsUpTo(S, n) == UNION {[1..k -> S] : k \in 0..n}

\* Array.prototype.slice(0, n) for n >= 0
Slice(s, n) == SubSeq(s, 1, Min(n, Len(s)))

(***************************************************************************)
(* The external decoder (7z) and its wrapper, sevenZip.extractArchive.     *)
(* One run of the tool is observed through three facts about its output.   *)
(***************************************************************************)
\* what one run of the 7z process can show
RawOutputs ==
  [indicator : BOOLEAN,      \* stdout/stderr holds a password indicator
   exitError : BOOLEAN,      \* non-zero exit, timeout or spawn error
   everythingOk : BOOLEAN,   \* stdout holds 'Everything is Ok'
   stderr : {"", "Data Error"}]

\* texts that contain the phrase 'Wrong password'
IncludesWrongPassword(text) == text \in {"Wrong password"}

\* ErrorFactory.extractionFailed(filePath, reason)
ExtractionFailed(reason) ==
  [ok |-> FALSE, message |-> "Failed to extract", reason |-> reason]

\* sevenZip.extractArchive: the promise's settlement for one run of the tool
SevenZipExtractArchive(raw) ==
  IF raw.indicator
    THEN ExtractionFailed("Wrong password")
    ELSE IF raw.exitError
      THEN ExtractionFailed(IF raw.stderr # "" THEN raw.stderr ELSE "Command failed")
      ELSE IF raw.everythingOk
        THEN [ok |-> TRUE, message |-> Null, reason |-> Null]
        ELSE ExtractionFailed("Extraction completed with warnings")

\* a retry engine that takes every decoder failure for a wrong password
IsPasswordErrorAlways(error) == TRUE

\* the isPasswordError test of _tryExtractWithPasswords
IsPasswordError(error) ==
  \/ IncludesWrongPassword(error.message)
  \/ (error.reason # Null /\ IncludesWrongPassword(error.reason))

(***************************************************************************)
(* Password library and candidate list.                                    *)
(***************************************************************************)
\* insert entry e into s, sorted by descending usageCount, after the entries
\* that compare equal (Array.prototype.sort is stable)
RECURSIVE InsertByUsage(_, _)
InsertByUsage(e, s) ==
  IF s = <<>> THEN <<e>>
  ELSE IF Head(s).usageCount >= e.usageCount
    THEN <<Head(s)>> \o InsertByUsage(e, Tail(s))
    ELSE <<e>> \o s

\* a candidate list that keeps the library in its stored order
SortByUsageOmitted(s) == s

\* storedPasswords.sort((a, b) => b.usageCount - a.usageCount)
RECURSIVE SortByUsage(_)
SortByUsage(s) ==
  IF s = <<>> THEN <<>>
  ELSE InsertByUsage(s[Len(s)], SortByUsage(SubSeq(s, 1, Len(s) - 1)))

\* the forEach of _getAllAvailablePasswords: push the values not yet listed
RECURSIVE PushMissing(_, _)
PushMissing(all, entries) ==
  IF entries = <<>> THEN all
  ELSE PushMissing(IF Head(entries).value \in Range(all)
                     THEN all
                     ELSE Append(all, Head(entries).value),
                   Tail(entries))

\* ArchiveExtractor._getAllAvailablePasswords
GetAllAvailablePasswords(providedPasswords, storedPasswords, maxPasswordAttempts) ==
  Slice(PushMissing(providedPasswords, SortByUsage(storedPasswords)),
        maxPasswordAttempts)

\* passwordStore.updatePasswordUsage: the library after a successful save
RECURSIVE UpdatePasswordUsage(_, _)
UpdatePasswordUsage(entries, password) ==
  IF entries = <<>> THEN <<>>
  ELSE IF Head(entries).value = password
    THEN <<[Head(entries) EXCEPT !.usageCount = @ + 1]>> \o Tail(entries)
    ELSE <<Head(entries)>> \o UpdatePasswordUsage(Tail(entries), password)

(***************************************************************************)
(* File names, the volume families of VolumeHandler and the file scanner.  *)
(* A file name is the sequence of its segments between dots; a segment is  *)
(* a word, a run of digits, or 'part', 'r' or 'z' followed by digits.      *)
(***************************************************************************)
Word(w) == [t |-> "word", w |-> w, d |-> <<>>]
Num(d) == [t |-> "num", w |-> "", d |-> d]
Part(d) == [t |-> "part", w |-> "", d |-> d]
RSeg(d) == [t |-> "r", w |-> "", d |-> d]
ZSeg(d) == [t |-> "z", w |-> "", d |-> d]

Last(s) == s[Len(s)]
Front(s) == SubSeq(s, 1, Len(s) - 1)

\* parseInt(digits, 10)
RECURSIVE ParseInt(_)
ParseInt(d) ==
  IF d = <<>> THEN 0 ELSE 10 * ParseInt(Front(d)) + Last(d)

\* Number.prototype.toString for n >= 0
RECURSIVE ToDigits(_)
ToDigits(n) ==
  IF n < 10 THEN <<n>> ELSE ToDigits(n \div 10) \o <<n % 10>>

\* String.prototype.padStart(width, '0')
RECURSIVE PadStart(_, _)
PadStart(d, width) ==
  IF Len(d) >= width THEN d ELSE PadStart(<<0>> \o d, width)

\* String.prototype.replace('.' + w, ''): the first occurrence goes
RECURSIVE RemoveFirst(_, _, _)
RemoveFirst(name, w, k) ==
  IF k > Len(name) THEN name
  ELSE IF name[k] = Word(w)
    THEN SubSeq(name, 1, k - 1) \o SubSeq(name, k + 1, Len(name))
    ELSE RemoveFirst(name, w, k + 1)

\* VolumeHandler.volumePatterns, by name and in the order of the array
VolumePatterns == <<"numeric", "rar_part", "rar_r", "zip_z", "7z_numbered">>

NoPattern == "none"

\* pattern.pattern.test(fileName)
PatternTest(pattern, fileName) ==
  CASE pattern = "numeric" ->
         /\ Len(fileName) >= 2
         /\ Last(fileName).t = "num" /\ Len(Last(fileName).d) \in 2..3
    [] pattern = "rar_part" ->
         /\ Len(fileName) >= 3
         /\ Last(fileName) = Word("rar")
         /\ fileName[Len(fileName) - 1].t = "part"
         /\ Len(fileName[Len(fileName) - 1].d) >= 1
    [] pattern = "rar_r" ->
         /\ Len(fileName) >= 2
         /\ Last(fileName).t = "r" /\ Len(Last(fileName).d) = 2
    [] pattern = "zip_z" ->
         /\ Len(fileName) >= 2
         /\ Last(fileName).t = "z" /\ Len(Last(fileName).d) = 2
    [] pattern = "7z_numbered" ->
         /\ Len(fileName) >= 3
         /\ Last(fileName).t = "num" /\ Len(Last(fileName).d) = 3
         /\ fileName[Len(fileName) - 1] = Word("7z")
    [] OTHER -> FALSE

\* VolumeHandler.detectVolumePattern: the first pattern that matches
DetectVolumePattern(fileName) ==
  IF \E k \in 1..Len(VolumePatterns) : PatternTest(VolumePatterns[k], fileName)
    THEN LET k == CHOOSE j \in 1..Len(VolumePatterns) :
                    /\ PatternTest(VolumePatterns[j], fileName)
                    /\ \A i \in 1..(j - 1) : ~PatternTest(VolumePatterns[i], fileName)
         IN VolumePatterns[k]
    ELSE NoPattern

\* pattern.getBaseName: the replace of each family; a name the regular
\* expression does not match is returned as it is
GetBaseName(pattern, fileName) ==
  CASE pattern = "numeric" ->
         IF Len(fileName) >= 2 /\ Last(fileName).t = "num"
            /\ Len(Last(fileName).d) \in 2..3
           THEN Front(fileName) ELSE fileName
    [] pattern = "rar_part" ->
         IF PatternTest("rar_part", fileName)
           THEN Front(Front(fileName)) ELSE fileName
    [] pattern = "rar_r" ->
         IF PatternTest("rar_r", fileName)
           THEN Front(fileName) \o <<Word("rar")>> ELSE fileName
    [] pattern = "zip_z" ->
         IF PatternTest("zip_z", fileName)
           THEN Front(fileName) \o <<Word("zip")>> ELSE fileName
    [] pattern = "7z_numbered" ->
         IF PatternTest("7z_numbered", fileName)
           THEN Front(fileName) ELSE fileName
    [] OTHER -> fileName

\* pattern.getVolumeNumber: 0 when the name does not match
GetVolumeNumber(pattern, fileName) ==
  CASE pattern = "numeric" ->
         IF Len(fileName) >= 2 /\ Last(fileName).t = "num"
            /\ Len(Last(fileName).d) \in 2..3
           THEN ParseInt(Last(fileName).d) ELSE 0
    [] pattern = "rar_part" ->
         IF PatternTest("rar_part", fileName)
           THEN ParseInt(fileName[Len(fileName) - 1].d) ELSE 0
    [] pattern = "rar_r" ->
         IF PatternTest("rar_r", fileName)
           THEN ParseInt(Last(fileName).d) + 1 ELSE 0
    [] pattern = "zip_z" ->
         IF PatternTest("zip_z", fileName)
           THEN ParseInt(Last(fileName).d) + 1 ELSE 0
    [] pattern = "7z_numbered" ->
         IF PatternTest("7z_numbered", fileName)
           THEN ParseInt(Last(fileName).d) ELSE 0
    [] OTHER -> 0

\* VolumeHandler.generateExpectedFileName, for volumeNumber >= 1 in the two
\* legacy families
GenerateExpectedFileName(baseName, volumeNumber, pattern) ==
  CASE pattern = "numeric" ->
         baseName \o <<Num(PadStart(ToDigits(volumeNumber), 3))>>
    [] pattern = "rar_part" ->
         baseName \o <<Part(PadStart(ToDigits(volumeNumber), 2)), Word("rar")>>
    [] pattern = "rar_r" ->
         RemoveFirst(baseName, "rar", 2)
           \o <<RSeg(PadStart(ToDigits(volumeNumber - 1), 2))>>
    [] pattern = "zip_z" ->
         RemoveFirst(baseName, "zip", 2)
           \o <<ZSeg(PadStart(ToDigits(volumeNumber - 1), 2))>>
    [] pattern = "7z_numbered" ->
         baseName \o <<Num(PadStart(ToDigits(volumeNumber), 3))>>
    [] OTHER -> baseName \o <<Num(ToDigits(volumeNumber))>>

\* what analyzeVolumeGroup returns when it returns nothing else
NoAnalysis ==
  [threw |-> FALSE, isValid |-> FALSE, error |-> Null, pattern |-> NoPattern,
   baseName |-> <<>>, volumes |-> <<>>, missing |-> <<>>,
   isComplete |-> FALSE, totalSize |-> 0, firstVolumeSize |-> 0]

\* analysis.volumes.sort((a, b) => a.number - b.number): a stable sort
RECURSIVE InsertByNumber(_, _)
InsertByNumber(sorted, v) ==
  IF sorted = <<>> THEN <<v>>
  ELSE IF Last(sorted).number <= v.number THEN Append(sorted, v)
    ELSE Append(InsertByNumber(Front(sorted), v), Last(sorted))

RECURSIVE SortByNumber(_)
SortByNumber(volumes) ==
  IF volumes = <<>> THEN <<>>
  ELSE InsertByNumber(SortByNumber(Front(volumes)), Last(volumes))

RECURSIVE TotalSize(_)
TotalSize(volumeGroup) ==
  IF volumeGroup = <<>> THEN 0
  ELSE Head(volumeGroup).size + TotalSize(Tail(volumeGroup))

\* the gap loop of analyzeVolumeGroup, from i to maxVolume
RECURSIVE MissingFrom(_, _, _, _, _)
MissingFrom(i, maxVolume, volumeNumbers, baseName, pattern) ==
  IF i > maxVolume THEN <<>>
  ELSE (IF i \notin volumeNumbers
          THEN <<[number |-> i,
                  expectedFileName |->
                    GenerateExpectedFileName(baseName, i, pattern)]>>
          ELSE <<>>)
       \o MissingFrom(i + 1, maxVolume, volumeNumbers, baseName, pattern)

\* VolumeHandler.analyzeVolumeGroup; volumeGroup is a sequence of files
AnalyzeVolumeGroup(volumeGroup) ==
  IF volumeGroup = <<>>
    THEN [NoAnalysis EXCEPT !.threw = TRUE,
                            !.error = "Missing volume file: No volume files provided"]
  ELSE
    LET pattern == DetectVolumePattern(volumeGroup[1].fileName)
    IN IF pattern = NoPattern
         THEN [NoAnalysis EXCEPT !.error = "Unknown volume pattern"]
       ELSE
         LET baseName == GetBaseName(pattern, volumeGroup[1].fileName)
             volumes ==
               SortByNumber([k \in 1..Len(volumeGroup) |->
                               [number |-> GetVolumeNumber(pattern, volumeGroup[k].fileName),
                                fileName |-> volumeGroup[k].fileName,
                                size |-> volumeGroup[k].size]])
             volumeNumbers == {volumes[k].number : k \in 1..Len(volumes)}
             minVolume == volumes[1].number
             maxVolume == Last(volumes).number
             \* volumeMap keeps the last file set under a number
             atMin == CHOOSE k \in 1..Len(volumeGroup) :
                        /\ GetVolumeNumber(pattern, volumeGroup[k].fileName) = minVolume
                        /\ \A j \in (k + 1)..Len(volumeGroup) :
                             GetVolumeNumber(pattern, volumeGroup[j].fileName) # minVolume
             missing == MissingFrom(minVolume, maxVolume, volumeNumbers, baseName, pattern)
         IN [NoAnalysis EXCEPT !.isValid = TRUE, !.pattern = pattern,
                               !.baseName = baseName, !.volumes = volumes,
                               !.missing = missing,
                               !.isComplete = (missing = <<>>),
                               !.totalSize = TotalSize(volumeGroup),
                               !.firstVolumeSize = volumeGroup[atMin].size]

Abs(n) == IF n >= 0 THEN n ELSE 0 - n

\* the size loop of validateVolumeIntegrity: the files console.warn names;
\* Math.abs(currentSize - firstSize) > firstSize * 0.1, in tenths
SizeWarnings(volumes) ==
  IF Len(volumes) > 1
    THEN {volumes[k].fileName : k \in
            {j \in 1..(Len(volumes) - 1) :
               10 * Abs(volumes[j].size - volumes[1].size) > volumes[1].size}}
    ELSE {}

\* an integrity check that takes a size deviation for a fault
ValidateVolumeIntegrityStrict(volumeGroup) ==
  LET analysis == AnalyzeVolumeGroup(volumeGroup)
  IN [threw |-> analysis.threw,
      isValid |-> analysis.isValid /\ analysis.isComplete
                    /\ SizeWarnings(analysis.volumes) = {},
      error |-> Null, analysis |-> analysis, missingFiles |-> <<>>,
      warned |-> {}]

\* VolumeHandler.validateVolumeIntegrity; warned holds the console.warn lines
ValidateVolumeIntegrity(volumeGroup) ==
  LET analysis == AnalyzeVolumeGroup(volumeGroup)
      missingFiles == [k \in 1..Len(analysis.missing) |->
                         analysis.missing[k].expectedFileName]
  IN IF analysis.threw
       THEN [threw |-> TRUE, isValid |-> FALSE, error |-> analysis.error,
             analysis |-> analysis, missingFiles |-> <<>>, warned |-> {}]
     ELSE IF ~analysis.isValid
       THEN [threw |-> FALSE, isValid |-> FALSE, error |-> analysis.error,
             analysis |-> analysis, missingFiles |-> <<>>, warned |-> {}]
     ELSE IF ~analysis.isComplete
       THEN [threw |-> FALSE, isValid |-> FALSE, error |-> "Missing volume files",
             analysis |-> analysis, missingFiles |-> missingFiles, warned |-> {}]
     ELSE [threw |-> FALSE, isValid |-> TRUE, error |-> Null,
           analysis |-> analysis, missingFiles |-> <<>>,
           warned |-> SizeWarnings(analysis.volumes)]

\* a getPrimaryVolume that takes the first file of the group
GetPrimaryVolumeFirst(volumeGroup) == volumeGroup[1]

\* VolumeHandler.getPrimaryVolume on a group whose names all match a
\* pattern: the stable sort by volume number puts first the earliest file
\* with the lowest number
GetPrimaryVolume(volumeGroup) ==
  LET num(k) == GetVolumeNumber(DetectVolumePattern(volumeGroup[k].fileName),
                                volumeGroup[k].fileName)
      first == CHOOSE k \in 1..Len(volumeGroup) :
                 /\ \A j \in 1..Len(volumeGroup) : num(k) <= num(j)
                 /\ \A j \in 1..(k - 1) : num(j) # num(k)
  IN volumeGroup[first]

(***************************************************************************)
(* The file scanner (fileScanner.js). A file on disk is                    *)
(* [fileName, directory, size, probe]; probe is what `7z t` says of it.    *)
(***************************************************************************)
ArchiveExtensions ==
  {"zip", "rar", "7z", "tar", "gz", "bz2", "xz", "iso",
   "cab", "arj", "lzh", "ace", "jar", "war", "ear"}

SuspiciousExtensions == {"txt", "doc", "jpg", "png", "mp4", "avi"}

\* 50 * 1024 * 1024
SuspiciousSize == 52428800

\* path.extname(filePath): the last segment when a dot precedes it
HasExtension(fileName, extensions) ==
  /\ Len(fileName) >= 2
  /\ Last(fileName).t = "word" /\ Last(fileName).w \in extensions

\* /\.part0*1\.rar$/: zeros, then a single 1
IsPartOne(d) ==
  /\ Len(d) >= 1 /\ Last(d) = 1
  /\ \A k \in 1..(Len(d) - 1) : d[k] = 0

\* isVolumeFile: some pattern of VOLUME_PATTERNS matches
IsVolumeFile(fileName) ==
  \/ /\ Len(fileName) >= 2
     /\ Last(fileName).t = "num"
     /\ Len(Last(fileName).d) = 3
     /\ Last(fileName).d[1] = 0 /\ Last(fileName).d[2] = 0
     /\ Last(fileName).d[3] \in 1..5
  \/ /\ Len(fileName) >= 3
     /\ Last(fileName) = Word("rar")
     /\ fileName[Len(fileName) - 1].t = "part"
     /\ IsPartOne(fileName[Len(fileName) - 1].d)
  \/ /\ Len(fileName) >= 2
     /\ Last(fileName).t = "r" /\ Len(Last(fileName).d) = 2
  \/ /\ Len(fileName) >= 2
     /\ Last(fileName).t = "z" /\ Len(Last(fileName).d) = 2
  \/ /\ Len(fileName) >= 3
     /\ Last(fileName).t = "num" /\ Len(Last(fileName).d) = 3
     /\ fileName[Len(fileName) - 1] = Word("7z")

IsPotentiallyDisguisedArchive(file) ==
  /\ HasExtension(file.fileName, SuspiciousExtensions)
  /\ file.size > SuspiciousSize
  /\ file.probe

IsArchiveFile(file) ==
  \/ HasExtension(file.fileName, ArchiveExtensions)
  \/ IsVolumeFile(file.fileName)
  \/ IsPotentiallyDisguisedArchive(file)

\* new ArchiveFile(filePath, fileStats), with isArchive and isVolume as
\* scanForArchives sets them; volumeGroup <<>> is null
ArchiveFile(file) ==
  [fileName |-> file.fileName, directory |-> file.directory, size |-> file.size,
   isVolume |-> IsVolumeFile(file.fileName), volumeGroup |-> <<>>,
   volumeAnalysis |-> NoAnalysis]

\* groupVolumeFiles, first pass: path.join(file.directory, baseName), or
\* Null for a file that goes to standaloneFiles
GroupKey(file) ==
  IF file.isVolume /\ DetectVolumePattern(file.fileName) # NoPattern
    THEN <<file.directory,
           GetBaseName(DetectVolumePattern(file.fileName), file.fileName)>>
    ELSE <<>>

\* the keys of volumeGroups in the order a Map keeps them: first insertion
RECURSIVE GroupKeys(_)
GroupKeys(archiveFiles) ==
  IF archiveFiles = <<>> THEN <<>>
  ELSE LET before == GroupKeys(Front(archiveFiles))
           key == GroupKey(Last(archiveFiles))
       IN IF key = <<>> \/ key \in Range(before) THEN before
          ELSE Append(before, key)

\* groupVolumeFiles: the standalone files, then one primary volume for each
\* group (analyzeVolumeGroup does not throw on a group that has a file, so
\* the catch is not taken)
GroupVolumeFiles(archiveFiles) ==
  LET standalone(file) == GroupKey(file) = <<>>
      keys == GroupKeys(archiveFiles)
      volumesOf(key) == LET member(file) == GroupKey(file) = key
                        IN SelectSeq(archiveFiles, member)
      primary(key) ==
        [GetPrimaryVolume(volumesOf(key)) EXCEPT
           !.volumeGroup = [k \in 1..Len(volumesOf(key)) |->
                              volumesOf(key)[k].fileName],
           !.volumeAnalysis = AnalyzeVolumeGroup(volumesOf(key)),
           !.isVolume = TRUE]
  IN SelectSeq(archiveFiles, standalone)
       \o [k \in 1..Len(keys) |-> primary(keys[k])]

\* scanForArchives after the walk: found is what the walk collected
ScanForArchives(found) ==
  LET archives == SelectSeq(found, IsArchiveFile)
      archiveFiles == [k \in 1..Len(archives) |-> ArchiveFile(archives[k])]
      groupedFiles == GroupVolumeFiles(archiveFiles)
  IN IF groupedFiles = <<>>
       THEN [error |-> "No archive files found", units |-> <<>>]
       ELSE [error |-> Null, units |-> groupedFiles]

\* no call of the scanner or of the volume handler
NoScan ==
  [found |-> <<>>, volumeGroup |-> <<>>,
   scanned |-> [error |-> Null, units |-> <<>>],
   analysis |-> NoAnalysis,
   integrity |-> [threw |-> FALSE, isValid |-> FALSE, error |-> Null,
                  analysis |-> NoAnalysis, missingFiles |-> <<>>, warned |-> {}]]

(***************************************************************************)
(* Volume groups as extractArchive meets them: archiveFile.volumeGroup is   *)
(* null, or the files of the group, each with its name and size.           *)
(***************************************************************************)
NoVolumeGroup == [present |-> FALSE, volumes |-> <<>>]
VolumeGroup(volumes) == [present |-> TRUE, volumes |-> volumes]

MaxVolumes == 3        \* files in one volume group
MaxVolumeNumber == 4   \* the volume names run over the digits 0..MaxVolumeNumber


Movie == <<Word("movie")>>

\* sequences of distinct elements of S, of length at most n
DistinctSeqs(S, n) ==
  {s \in SeqsUpTo(S, n) : \A j, k \in 1..Len(s) : j # k => s[j] # s[k]}

\* base names: a plain one, and one that has '.rar' and '.zip' inside
Stems == {Movie, <<Word("a"), Word("rar"), Word("zip"), Word("b")>>}

\* the names of the volumes of one family over one stem
FamilyNames(stem, family) ==
  CASE family = "numeric" ->
         {stem \o <<Num(<<0, 0, n>>)>> : n \in 0..MaxVolumeNumber}
           \cup {stem \o <<Num(<<0, n>>)>> : n \in 0..MaxVolumeNumber}
    [] family = "rar_part" ->
         {stem \o <<Part(<<0, n>>), Word("rar")>> : n \in 1..MaxVolumeNumber}
           \cup {stem \o <<Part(<<n>>), Word("rar")>> : n \in 1..MaxVolumeNumber}
    [] family = "rar_r" ->
         {stem \o <<RSeg(<<0, n>>)>> : n \in 0..MaxVolumeNumber}
    [] family = "zip_z" ->
         {stem \o <<ZSeg(<<0, n>>)>> : n \in 0..MaxVolumeNumber}
    [] family = "7z_numbered" ->
         {stem \o <<Word("7z"), Num(<<0, 0, n>>)>> : n \in 1..MaxVolumeNumber}

Sizes == {100, 200}

\* names no family claims
OtherNames == {Movie \o <<Word("rar")>>, Movie \o <<Word("zip")>>}

\* the groups handed to the volume handler: files of one family and one
\* base name in any order, the empty group, and files of no family
VolumeGroups ==
  UNION {UNION {DistinctSeqs([fileName : FamilyNames(stem, family), size : Sizes],
                             MaxVolumes)
                  : family \in Range(VolumePatterns)} : stem \in Stems}
    \cup DistinctSeqs([fileName : OtherNames, size : {100}], MaxVolumes)

\* the groups of the units extractArchive is called on: files of one family
\* over the base name movie, in any order
UnitGroups ==
  UNION {DistinctSeqs([fileName : FamilyNames(Movie, family), size : {100}],
                      MaxVolumes)
           : family \in Range(VolumePatterns)} \ {<<>>}

\* a group of the numeric family over the base name movie, by its numbers
NumericVolumes(numbers) ==
  [k \in 1..Len(numbers) |->
     [fileName |-> <<Word("movie"), Num(<<0, 0, numbers[k]>>)>>, size |-> 100]]

\* an extractArchive that hands a group with gaps to the decoder
VolumeCheckIgnoresGaps(archiveFile) ==
  IF ~(archiveFile.isVolume /\ archiveFile.volumeGroup.present)
     \/ archiveFile.volumeGroup.volumes = <<>>
    THEN [error |-> Null, errorFiles |-> <<>>,
          target |-> <<Word(archiveFile.fileName)>>]
    ELSE [error |-> Null, errorFiles |-> <<>>,
          target |-> GetPrimaryVolume(archiveFile.volumeGroup.volumes).fileName]

\* _extractVolumeArchive once validateVolumeIntegrity has returned (or has
\* thrown, which the catch of extractArchive turns into the result's error)
ExtractVolumeArchive(validation, volumeGroup) ==
  IF validation.threw
    THEN [error |-> "Missing volume file: No volume files provided",
          errorFiles |-> <<>>, target |-> <<>>]
  ELSE IF ~validation.isValid /\ validation.missingFiles # <<>>
    THEN [error |-> "Cannot extract incomplete volume set",
          errorFiles |-> validation.missingFiles, target |-> <<>>]
  ELSE [error |-> Null, errorFiles |-> <<>>,
        target |-> GetPrimaryVolume(volumeGroup).fileName]

\* what extractArchive does before _extractSingleArchive is called: the
\* error it ends with (Null when the unit goes on) and the file names its
\* message ends with, or the name of the file that goes to the decoder.
\* The name of a file without a volume group is kept whole, in one segment.
VolumeCheck(archiveFile) ==
  IF ~(archiveFile.isVolume /\ archiveFile.volumeGroup.present)
    THEN [error |-> Null, errorFiles |-> <<>>,
          target |-> <<Word(archiveFile.fileName)>>]
    ELSE ExtractVolumeArchive(
           ValidateVolumeIntegrity(archiveFile.volumeGroup.volumes),
           archiveFile.volumeGroup.volumes)

(***************************************************************************)
(* Archive files and what an extraction leaves on disk.                    *)
(***************************************************************************)
FileNames == {"a.zip", "b.zip"}
Contents == {1, 2}     \* the bytes of a file, by identity

PlainFile(fileName, content) ==
  [fileName |-> fileName, content |-> content, readable |-> TRUE,
   isVolume |-> FALSE, volumeGroup |-> NoVolumeGroup]

\* a file fs.readFileSync cannot load (no permission, or larger than a Buffer)
UnreadableFile(fileName, content) ==
  [PlainFile(fileName, content) EXCEPT !.readable = FALSE]

VolumeFile(fileName, content, volumes) ==
  [fileName |-> fileName, content |-> content, readable |-> TRUE,
   isVolume |-> TRUE, volumeGroup |-> VolumeGroup(volumes)]

\* the units a top-level call is given
TopFiles ==
  {PlainFile("a.zip", 1),
   VolumeFile("a.zip", 1, NumericVolumes(<<1, 2>>)),
   VolumeFile("a.zip", 1, NumericVolumes(<<1, 3>>)),
   VolumeFile("a.zip", 1, <<>>)}

\* the archives an extraction can leave in its output directory: a copy of
\* the top-level archive, the same name with other bytes, the same bytes
\* under another name
NestedFiles ==
  {PlainFile("a.zip", 1), PlainFile("a.zip", 2), PlainFile("b.zip", 1)}

\* the same, with files among them that cannot be read into memory
CycleFiles ==
  {PlainFile("a.zip", 1), PlainFile("a.zip", 2), PlainFile("b.zip", 1),
   UnreadableFile("a.zip", 1)}

\* the archives a batch is given: one that can be extracted, and two volume
\* sets with gaps, which fail before the decoder is called
BatchFiles ==
  {PlainFile("a.zip", 1),
   VolumeFile("a.zip", 1, NumericVolumes(<<1, 3>>)),
   VolumeFile("a.zip", 1, NumericVolumes(<<4, 1>>))}

\* the nested archives the archives of a batch can hold
BatchNestedFiles == {PlainFile("a.zip", 1), PlainFile("b.zip", 1)}

\* the volume units a caller hands to extractArchive
VolumeUnits == {VolumeFile("movie", 1, volumes) : volumes \in UnitGroups}

\* every archive file extractArchive is called on
ArchiveFiles ==
  TopFiles \cup NestedFiles \cup CycleFiles \cup BatchFiles \cup VolumeUnits

\* the volume check of each of them
VolumeChecked == [archiveFile \in ArchiveFiles |-> VolumeCheck(archiveFile)]

\* sha256 over the file's bytes followed by its name (_detectCycle)
ContentHash(archiveFile) == <<archiveFile.content, archiveFile.fileName>>

(***************************************************************************)
(* State.                                                                  *)
(***************************************************************************)
VARIABLES
  options,             \* ArchiveExtractor.options of the top-level extractor
  library,             \* the password library: sequence of [value, usageCount]
  call,                \* the top-level call: [archiveFile, passwords]
  packed,              \* the archive files packed, at any depth, in call.archiveFile
  batch,               \* the batch call around this call, if any: its API, its
                       \* archives, how many are done, and the results so far
  pc,                  \* Idle, Extracting, Extracted, Scanning, Recursing, Done
  unit,                \* the unit in _tryExtractWithPasswords and its fragment
  result,              \* the ExtractionResult of the top-level call
  nestedStatistics,    \* result.nestedStatistics: <<>> or <<statistics>>
  frames,              \* activations of processNestedArchives, innermost last
  processedHashes,     \* NestedArchiveProcessor.processedHashes
  currentPath,         \* NestedArchiveProcessor.currentPath
  statistics,          \* NestedArchiveProcessor.statistics
  removed,             \* paths of the nested archive files unlinked so far
  decoderCalls,        \* calls of sevenZip.extractArchive in this call
  sevenZipInitialized, \* SevenZipWrapper.isInitialized
  steps,               \* steps taken by this call
  scan,                \* a call of the file scanner or of the volume handler:
                       \* its input, and what it returned
  callbacks            \* the calls made to the caller's callbacks, in order

vars == <<options, library, call, packed, batch, pc, unit, result, nestedStatistics, frames,
          processedHashes, currentPath, statistics, removed, decoderCalls,
          sevenZipInitialized, steps, scan, callbacks>>

\* new ExtractionResult(archiveFile); filePath is archiveFile.filePath
ExtractionResult(archiveFile, filePath) ==
  [archiveFile |-> archiveFile, filePath |-> filePath, success |-> FALSE, outputPath |-> NullPath,
   usedPassword |-> Null, error |-> Null, errorFiles |-> <<>>, nestingLevel |-> 0,
   nestedArchives |-> <<>>]

\* ExtractionResult.complete
Complete(r, success, outputPath, error) ==
  [r EXCEPT !.success = success, !.outputPath = outputPath, !.error = error]

\* the statistics object of the constructor and of reset()
ZeroStatistics ==
  [totalProcessed |-> 0, successfulExtractions |-> 0, failedExtractions |-> 0,
   cyclesDetected |-> 0, maxDepthReached |-> 0, cleanedFiles |-> 0]

NoUnit ==
  [archiveFile |-> PlainFile("a.zip", 1), filePath |-> NullPath,
   outputDir |-> NullPath, level |-> 0, passwords |-> <<>>, i |-> 0,
   done |-> FALSE, success |-> FALSE, usedPassword |-> Null, error |-> Null,
   errorFiles |-> <<>>,   \* the file names the error message ends with
   target |-> <<>>,       \* fileName of the file handed to the decoder
   created |-> FALSE,     \* _createArchiveOutputDir has made outputDir
   produced |-> <<>>, attempts |-> <<>>]

\* the unit as _extractSingleArchive hands it to _tryExtractWithPasswords,
\* or already failed by the volume check of extractArchive
CheckedUnit(early, archiveFile, filePath, outputDir, level, passwords) ==
  [NoUnit EXCEPT !.archiveFile = archiveFile, !.filePath = filePath,
                 !.outputDir = IF early.error = Null THEN outputDir ELSE NullPath,
                 !.created = (early.error = Null),
                 !.target = early.target,
                 !.level = level,
                 !.passwords = IF early.error = Null THEN passwords ELSE <<>>,
                 !.done = (early.error # Null), !.error = early.error,
                 !.errorFiles = early.errorFiles]

NewUnit(archiveFile, filePath, outputDir, level, passwords) ==
  CheckedUnit(VolumeChecked[archiveFile], archiveFile, filePath, outputDir,
              level, passwords)

\* library contents: entries with distinct values
Libraries(values, maxLen, maxUsage) ==
  {s \in SeqsUpTo([value : values, usageCount : 0..maxUsage], maxLen) :
     \A j, k \in 1..Len(s) : j # k => s[j].value # s[k].value}

\* extractArchive called on its own, not from a batch
NoBatch ==
  [api |-> "extractArchive", archives |-> <<>>, passwords |-> <<>>, i |-> 0,
   results |-> <<>>]

InitCommon ==
  /\ pc = "Idle"
  /\ scan = NoScan
  /\ batch = NoBatch
  /\ unit = NoUnit
  /\ result = ExtractionResult(call.archiveFile, <<0>>)
  /\ nestedStatistics = <<>>
  /\ frames = <<>>
  /\ processedHashes = {}
  /\ currentPath = <<>>
  /\ statistics = ZeroStatistics
  /\ removed = {}
  /\ decoderCalls = 0
  /\ sevenZipInitialized = FALSE
  /\ callbacks = <<>>
  /\ steps = 0

\* the options of a call with nested processing, depth caps up to maxDepth
NestedOptions(maxDepth) ==
  [maxPasswordAttempts : {DefaultMaxPasswordAttempts},
   handleNested : BOOLEAN,
   maxNestingDepth : 0..maxDepth,
   maxTotalNestedArchives : 1..MaxTotalCfg,
   enableCycleDetection : BOOLEAN,
   nestedCleanupMode : {"success"}]

\* one call with nested processing: the caller supplies the password and the
\* library is empty, or (one level less deep) the library holds the password
Init ==
  /\ \/ /\ options \in NestedOptions(MaxDepthCfg)
        /\ library = <<>>
        /\ call \in [archiveFile : {PlainFile("a.zip", 1),
                                     VolumeFile("a.zip", 1, NumericVolumes(<<1, 3>>))},
                      passwords : {<<"p1">>}]
     \/ /\ options \in NestedOptions(MaxDepthCfg - 1)
        /\ library = <<[value |-> "p1", usageCount |-> 0]>>
        /\ call \in [archiveFile : {PlainFile("a.zip", 1)}, passwords : {<<>>}]
  /\ packed = NestedFiles
  /\ InitCommon

\* one call of the password retry engine alone
InitRetry ==
  /\ options \in [maxPasswordAttempts : 0..MaxAttemptsCfg,
                  handleNested : {FALSE},
                  maxNestingDepth : {5},
                  maxTotalNestedArchives : {50},
                  enableCycleDetection : {TRUE},
                  nestedCleanupMode : {"success"}]
  /\ library \in Libraries(Passwords, MaxStored, MaxUsage)
  /\ call \in [archiveFile : TopFiles, passwords : SeqsUpTo(Passwords, MaxProvided)]
  /\ packed = {}
  /\ InitCommon

(***************************************************************************)
(* ArchiveExtractor: extractArchive and the password retry engine.         *)
(***************************************************************************)
\* extractArchive up to the first decoder call: the volume check,
\* _createArchiveOutputDir and _getAllAvailablePasswords
ExtractArchive ==
  /\ pc = "Idle"
  /\ unit' = NewUnit(call.archiveFile, <<0>>, <<1 + batch.i>>, 0,
                     GetAllAvailablePasswords(call.passwords, library,
                                              options.maxPasswordAttempts))
  /\ pc' = IF unit'.done THEN "Extracted" ELSE "Extracting"
  /\ steps' = steps + 1
  /\ UNCHANGED <<callbacks, scan, options, packed, batch, library, call, result, nestedStatistics, frames,
                 processedHashes, currentPath, statistics, removed,
                 decoderCalls, sevenZipInitialized>>

\* what the output directory of a successful extraction can hold; it is
\* looked at only when nested processing is on
ProducedChoices ==
  IF options.handleNested THEN SeqsUpTo(packed, MaxFound) ELSE {<<>>}

\* a retry engine that reports no password on success
TryExtractForgetsPassword(u, res, produced) ==
  LET password == IF u.i = 0 THEN Null ELSE u.passwords[u.i]
      u1 == [u EXCEPT !.attempts =
               Append(@, [target |-> u.target, password |-> password,
                          outcome |-> IF res.ok THEN "ok" ELSE res.reason])]
  IN IF res.ok
       THEN [u1 EXCEPT !.done = TRUE, !.success = TRUE, !.produced = produced]
     ELSE IF ~IsPasswordError(res)
       THEN [u1 EXCEPT !.done = TRUE, !.error = res.message]
     ELSE IF u.i = Len(u.passwords)
       THEN [u1 EXCEPT !.done = TRUE,
                       !.error = IF u.i = 0 THEN "No valid passwords found"
                                            ELSE "All passwords failed"]
     ELSE [u1 EXCEPT !.i = @ + 1]

\* a retry engine that tries the same candidate again after a wrong password
TryExtractNeverAdvances(u, res, produced) ==
  LET password == IF u.i = 0 THEN Null ELSE u.passwords[u.i]
      u1 == [u EXCEPT !.attempts =
               Append(@, [target |-> u.target, password |-> password,
                          outcome |-> IF res.ok THEN "ok" ELSE res.reason])]
  IN IF res.ok
       THEN [u1 EXCEPT !.done = TRUE, !.success = TRUE,
                       !.usedPassword = password, !.produced = produced]
     ELSE IF ~IsPasswordError(res)
       THEN [u1 EXCEPT !.done = TRUE, !.error = res.message]
     ELSE IF u.i = Len(u.passwords)
       THEN [u1 EXCEPT !.done = TRUE,
                       !.error = IF u.i = 0 THEN "No valid passwords found"
                                            ELSE "All passwords failed"]
     ELSE [u EXCEPT !.attempts = <<>>]

\* a retry engine that gives up one candidate early
TryExtractStopsEarly(u, res, produced) ==
  LET password == IF u.i = 0 THEN Null ELSE u.passwords[u.i]
      u1 == [u EXCEPT !.attempts =
               Append(@, [target |-> u.target, password |-> password,
                          outcome |-> IF res.ok THEN "ok" ELSE res.reason])]
  IN IF res.ok
       THEN [u1 EXCEPT !.done = TRUE, !.success = TRUE,
                       !.usedPassword = password, !.produced = produced]
     ELSE IF ~IsPasswordError(res)
       THEN [u1 EXCEPT !.done = TRUE, !.error = res.message]
     ELSE IF u.i >= Len(u.passwords) - 1
       THEN [u1 EXCEPT !.done = TRUE,
                       !.error = IF Len(u.passwords) = 0
                                   THEN "No valid passwords found"
                                   ELSE "All passwords failed"]
     ELSE [u1 EXCEPT !.i = @ + 1]

\* one attempt of _tryExtractWithPasswords: attempt 0 is the one without a
\* password, attempt k tries passwords[k]; res is the decoder's settlement
TryExtractWithPasswords(u, res, produced) ==
  LET password == IF u.i = 0 THEN Null ELSE u.passwords[u.i]
      u1 == [u EXCEPT !.attempts =
               Append(@, [target |-> u.target, password |-> password,
                          outcome |-> IF res.ok THEN "ok" ELSE res.reason])]
  IN IF res.ok
       THEN [u1 EXCEPT !.done = TRUE, !.success = TRUE,
                       !.usedPassword = password, !.produced = produced]
     ELSE IF ~IsPasswordError(res)
       THEN [u1 EXCEPT !.done = TRUE, !.error = res.message]
     ELSE IF u.i = Len(u.passwords)
       THEN [u1 EXCEPT !.done = TRUE,
                       !.error = IF u.i = 0 THEN "No valid passwords found"
                                            ELSE "All passwords failed"]
     ELSE [u1 EXCEPT !.i = @ + 1]

\* one call of sevenZip.extractArchive from _tryExtractWithPasswords
DecodeAttempt ==
  /\ pc = "Extracting"
  /\ \E raw \in RawOutputs :
       LET res == SevenZipExtractArchive(raw)
       IN \E produced \in IF res.ok THEN ProducedChoices ELSE {<<>>} :
            unit' = TryExtractWithPasswords(unit, res, produced)
  /\ pc' = IF unit'.done THEN "Extracted" ELSE "Extracting"
  /\ decoderCalls' = decoderCalls + 1
  /\ sevenZipInitialized' = TRUE
  /\ steps' = steps + 1
  /\ UNCHANGED <<callbacks, scan, options, packed, batch, library, call, result, nestedStatistics, frames,
                 processedHashes, currentPath, statistics, removed>>

\* sevenZip.initialize() throws before the first decoder call: no 7z binary
InitializeFails ==
  /\ pc = "Extracting"
  /\ unit.i = 0
  /\ ~sevenZipInitialized
  /\ unit' = [unit EXCEPT !.done = TRUE,
                          !.error = "ErrorFactory.no7Zip is not a function"]
  /\ pc' = "Extracted"
  /\ steps' = steps + 1
  /\ UNCHANGED <<callbacks, scan, options, packed, batch, library, call, result, nestedStatistics, frames,
                 processedHashes, currentPath, statistics, removed,
                 decoderCalls, sevenZipInitialized>>

\* the outcomes of updatePasswordUsage(password): nothing to count, the entry
\* is counted and saved, or ensureConfigDir throws
UsageOutcomes(entries, password) ==
  IF password = Null \/ password \notin {entries[k].value : k \in 1..Len(entries)}
    THEN {"none"}
    ELSE {"saved", "throws"}

\* an extractArchive whose catch leaves the output path of the decode in place
SingleArchiveResultKeepsOutput(r, u, usage) ==
  IF ~u.success
    THEN [Complete(r, FALSE, NullPath, u.error) EXCEPT !.errorFiles = u.errorFiles]
  ELSE IF usage = "throws"
    THEN [Complete(r, FALSE, u.outputDir, "EACCES: permission denied, mkdir")
            EXCEPT !.usedPassword = u.usedPassword]
    ELSE [Complete(r, TRUE, u.outputDir, Null)
            EXCEPT !.usedPassword = u.usedPassword]

\* the result of _extractSingleArchive after _tryExtractWithPasswords, as
\* extractArchive returns it when nested processing is off or not reached
SingleArchiveResult(r, u, usage) ==
  IF ~u.success
    THEN [Complete(r, FALSE, NullPath, u.error) EXCEPT !.errorFiles = u.errorFiles]
  ELSE IF usage = "throws"
    THEN [Complete(r, FALSE, NullPath, "EACCES: permission denied, mkdir")
            EXCEPT !.usedPassword = u.usedPassword]
    ELSE [Complete(r, TRUE, u.outputDir, Null)
            EXCEPT !.usedPassword = u.usedPassword]

\* a reset() that forgets to clear the fingerprint set
ResetKeepsHashes(hashes, path, stats) ==
  [processedHashes |-> hashes, currentPath |-> <<>>, statistics |-> ZeroStatistics]

\* NestedArchiveProcessor.reset() applied to the processor's state
Reset(hashes, path, stats) ==
  [processedHashes |-> {}, currentPath |-> <<>>, statistics |-> ZeroStatistics]

\* a recursion that passes its own depth on
FrameSameDepth(extractedDir, parentResult, produced, depth) ==
  [extractedDir |-> extractedDir, parentPassword |-> parentResult.usedPassword,
   depth |-> Max(0, depth - 1), produced |-> produced, found |-> <<>>, idx |-> 1,
   results |-> <<>>]

\* a new activation of processNestedArchives(extractedDir, parentResult, depth)
Frame(extractedDir, parentResult, produced, depth) ==
  [extractedDir |-> extractedDir, parentPassword |-> parentResult.usedPassword,
   depth |-> depth, produced |-> produced, found |-> <<>>, idx |-> 1,
   results |-> <<>>]

\* the rest of _extractSingleArchive for the top-level unit
CompleteTopLevel ==
  /\ pc = "Extracted"
  /\ unit.level = 0
  /\ \E usage \in UsageOutcomes(library, unit.usedPassword) :
       LET r == SingleArchiveResult(result, unit, usage)
       IN /\ result' = r
          /\ library' = IF usage = "saved"
                          THEN UpdatePasswordUsage(library, unit.usedPassword)
                          ELSE library
          /\ IF r.success /\ options.handleNested
               THEN \* nestedProcessor.reset(), processNestedArchives(dir, result, 0)
                    /\ LET fresh == Reset(processedHashes, currentPath, statistics)
                       IN /\ processedHashes' = fresh.processedHashes
                          /\ currentPath' = fresh.currentPath
                          /\ statistics' = fresh.statistics
                    /\ frames' = <<Frame(unit.outputDir, r, unit.produced, 0)>>
                    /\ pc' = "Scanning"
               ELSE /\ UNCHANGED <<processedHashes, currentPath, statistics, frames>>
                    /\ pc' = "Done"
  /\ steps' = steps + 1
  /\ unit' = IF pc' = "Done" THEN unit ELSE NoUnit
  /\ UNCHANGED <<callbacks, scan, options, packed, batch, call, nestedStatistics, removed, decoderCalls,
                 sevenZipInitialized>>

NextRetry ==
  \/ ExtractArchive
  \/ DecodeAttempt
  \/ InitializeFails
  \/ CompleteTopLevel

SpecRetry == InitRetry /\ [][NextRetry]_vars

\* one call of extractArchive on a volume unit, with one password supplied
InitVolumeUnits ==
  /\ options = [maxPasswordAttempts |-> DefaultMaxPasswordAttempts,
                handleNested |-> FALSE,
                maxNestingDepth |-> 5,
                maxTotalNestedArchives |-> 50,
                enableCycleDetection |-> TRUE,
                nestedCleanupMode |-> "success"]
  /\ library = <<>>
  /\ call \in [archiveFile : VolumeUnits, passwords : {<<"p1">>}]
  /\ packed = {}
  /\ InitCommon

SpecVolumeUnits == InitVolumeUnits /\ [][NextRetry]_vars

(***************************************************************************)
(* NestedArchiveProcessor.                                                 *)
(***************************************************************************)
TopFrame == frames[Len(frames)]

\* a processNestedArchives without the depth cap at its entry
ScanResultNoDepthCap(f, stats) ==
  IF stats.totalProcessed >= options.maxTotalNestedArchives THEN <<>>
  ELSE f.produced

\* processNestedArchives up to the for loop: the two caps, then the rescan
\* of extractedDir (fileScanner.scanForArchives; its NoArchives error on an
\* empty directory is caught and leaves nothing to iterate)
ScanResult(f, stats) ==
  IF f.depth >= options.maxNestingDepth THEN <<>>
  ELSE IF stats.totalProcessed >= options.maxTotalNestedArchives THEN <<>>
  ELSE f.produced

\* the update of maxDepthReached in the depth guard
DepthGuardStatistics(f, stats) ==
  IF f.depth >= options.maxNestingDepth
    THEN [stats EXCEPT !.maxDepthReached = Max(@, f.depth)]
    ELSE stats

ProcessNestedArchives ==
  /\ pc = "Scanning"
  /\ frames' = [frames EXCEPT ![Len(frames)].found = ScanResult(TopFrame, statistics)]
  /\ statistics' = DepthGuardStatistics(TopFrame, statistics)
  /\ pc' = "Recursing"
  /\ steps' = steps + 1
  /\ UNCHANGED <<callbacks, scan, options, packed, batch, library, call, unit, result, nestedStatistics,
                 processedHashes, currentPath, removed, decoderCalls,
                 sevenZipInitialized>>

\* _detectCycle: whether the unit is skipped, and processedHashes afterwards
DetectCycle(archiveFile, hashes, path) ==
  IF ~options.enableCycleDetection
    THEN [cycle |-> FALSE, hashes |-> hashes]
  ELSE IF ~archiveFile.readable    \* readFileSync throws: caught, return false
    THEN [cycle |-> FALSE, hashes |-> hashes]
  ELSE IF ContentHash(archiveFile) \in hashes
    THEN [cycle |-> TRUE, hashes |-> hashes]
  ELSE IF archiveFile.fileName \in Range(path)
    THEN [cycle |-> TRUE, hashes |-> hashes]
  ELSE [cycle |-> FALSE, hashes |-> hashes \cup {ContentHash(archiveFile)}]

\* the passwords _extractNestedArchive hands to the nested extractor
NestedPasswords(f) ==
  IF f.parentPassword # Null THEN <<f.parentPassword>> ELSE <<>>

\* the head of one iteration of the for loop: the cycle check, then either
\* the skip, or the bookkeeping and the start of _extractNestedArchive
ExtractNestedArchive ==
  /\ pc = "Recursing"
  /\ TopFrame.idx <= Len(TopFrame.found)
  /\ LET f == TopFrame
         nestedArchive == f.found[f.idx]
         check == DetectCycle(nestedArchive, processedHashes, currentPath)
     IN   /\ processedHashes' = check.hashes
          /\ IF check.cycle
               THEN /\ statistics' = [statistics EXCEPT !.cyclesDetected = @ + 1]
                    /\ frames' = [frames EXCEPT ![Len(frames)].idx = @ + 1]
                    /\ UNCHANGED <<currentPath, unit, pc>>
               ELSE /\ currentPath' = Append(currentPath, nestedArchive.fileName)
                    /\ statistics' = [statistics EXCEPT !.totalProcessed = @ + 1]
                    /\ unit' = NewUnit(nestedArchive,
                                       Append(f.extractedDir, f.idx),
                                       Append(f.extractedDir, f.idx),
                                       f.depth + 1,
                                       GetAllAvailablePasswords(
                                         NestedPasswords(f), library,
                                         DefaultMaxPasswordAttempts))
                    /\ pc' = IF unit'.done THEN "Extracted" ELSE "Extracting"
                    /\ UNCHANGED frames
  /\ steps' = steps + 1
  /\ UNCHANGED <<callbacks, scan, options, packed, batch, library, call, result, nestedStatistics, removed,
                 decoderCalls, sevenZipInitialized>>

\* a _cleanupNestedFile that never deletes
ShouldCleanupNever(extractionResult) == FALSE

\* the shouldCleanup test of _cleanupNestedFile
ShouldCleanup(extractionResult) ==
  \/ options.nestedCleanupMode = "always"
  \/ (options.nestedCleanupMode = "success" /\ extractionResult.success)

\* the guard of the recursive call in processNestedArchives
RecursesInto(nestedResult, currentDepth) ==
  /\ nestedResult.outputPath # NullPath
  /\ currentDepth < options.maxNestingDepth - 1

Pop(s) == SubSeq(s, 1, Len(s) - 1)

\* the rest of the iteration once the nested extractor has returned: the
\* result is recorded and counted; a success either recurses into its output
\* or is cleaned up at once
CompleteNested ==
  /\ pc = "Extracted"
  /\ unit.level > 0
  /\ \E usage \in UsageOutcomes(library, unit.usedPassword) :
       LET f == TopFrame
           nestedResult ==
             [SingleArchiveResult(ExtractionResult(unit.archiveFile, unit.filePath),
                                  unit, usage)
                EXCEPT !.nestingLevel = f.depth + 1]
           f1 == [f EXCEPT !.results = Append(@, nestedResult)]
           clean == ShouldCleanup(nestedResult)
       IN /\ library' = IF usage = "saved"
                          THEN UpdatePasswordUsage(library, unit.usedPassword)
                          ELSE library
          /\ IF ~nestedResult.success
               THEN /\ statistics' = [statistics EXCEPT !.failedExtractions = @ + 1]
                    /\ frames' = [frames EXCEPT ![Len(frames)] = [f1 EXCEPT !.idx = @ + 1]]
                    /\ currentPath' = Pop(currentPath)
                    /\ pc' = "Recursing"
                    /\ UNCHANGED removed
             ELSE IF RecursesInto(nestedResult, f.depth)
               THEN /\ statistics' = [statistics EXCEPT !.successfulExtractions = @ + 1]
                    /\ frames' = Append([frames EXCEPT ![Len(frames)] = f1],
                                        Frame(nestedResult.outputPath, nestedResult,
                                              unit.produced, f.depth + 1))
                    /\ pc' = "Scanning"
                    /\ UNCHANGED <<currentPath, removed>>
               ELSE /\ statistics' =
                         [statistics EXCEPT
                            !.successfulExtractions = @ + 1,
                            !.cleanedFiles = IF clean THEN @ + 1 ELSE @]
                    /\ removed' = IF clean THEN removed \cup {unit.filePath} ELSE removed
                    /\ frames' = [frames EXCEPT ![Len(frames)] = [f1 EXCEPT !.idx = @ + 1]]
                    /\ currentPath' = Pop(currentPath)
                    /\ pc' = "Recursing"
  /\ steps' = steps + 1
  /\ unit' = NoUnit
  /\ UNCHANGED <<callbacks, scan, options, packed, batch, call, result, nestedStatistics, processedHashes,
                 decoderCalls, sevenZipInitialized>>

\* processNestedArchives returns: to the iteration of the caller that
\* recursed (which attaches the children, cleans up and pops the path), or
\* to _extractSingleArchive, which attaches the children and the statistics
ReturnNested ==
  /\ pc = "Recursing"
  /\ TopFrame.idx > Len(TopFrame.found)
  /\ IF Len(frames) = 1
       THEN /\ result' = [result EXCEPT !.nestedArchives = TopFrame.results]
            /\ nestedStatistics' = <<statistics>>
            /\ frames' = <<>>
            /\ pc' = "Done"
            /\ UNCHANGED <<statistics, removed, currentPath>>
       ELSE LET p == frames[Len(frames) - 1]
                k == Len(p.results)
                nestedResult == [p.results[k] EXCEPT !.nestedArchives = TopFrame.results]
                clean == ShouldCleanup(nestedResult)
                p1 == [p EXCEPT !.results[k] = nestedResult, !.idx = @ + 1]
            IN /\ frames' = Append(SubSeq(frames, 1, Len(frames) - 2), p1)
               /\ statistics' = [statistics EXCEPT
                                   !.cleanedFiles = IF clean THEN @ + 1 ELSE @]
               /\ removed' = IF clean
                               THEN removed \cup {Append(p.extractedDir, p.idx)}
                               ELSE removed
               /\ currentPath' = Pop(currentPath)
               /\ pc' = "Recursing"
               /\ UNCHANGED <<result, nestedStatistics>>
  /\ steps' = steps + 1
  /\ UNCHANGED <<callbacks, scan, options, packed, batch, library, call, unit, processedHashes, decoderCalls,
                 sevenZipInitialized>>

Next ==
  \/ ExtractArchive
  \/ DecodeAttempt
  \/ InitializeFails
  \/ CompleteTopLevel
  \/ ProcessNestedArchives
  \/ ExtractNestedArchive
  \/ CompleteNested
  \/ ReturnNested

Spec == Init /\ [][Next]_vars

\* one call with cycle detection on, no passwords anywhere, any cleanup mode,
\* on an archive that may hold files that cannot be read into memory
InitCycle ==
  /\ options \in [maxPasswordAttempts : {DefaultMaxPasswordAttempts},
                  handleNested : {TRUE},
                  maxNestingDepth : 1..MaxDepthCfg,
                  maxTotalNestedArchives : {MaxTotalCfg},
                  enableCycleDetection : {TRUE},
                  nestedCleanupMode : {"success", "always", "never"}]
  /\ library = <<>>
  /\ call = [archiveFile |-> PlainFile("a.zip", 1), passwords |-> <<>>]
  /\ packed = CycleFiles
  /\ InitCommon

SpecCycle == InitCycle /\ [][Next]_vars

(***************************************************************************)
(* Properties of the password retry engine, checked under SpecRetry.       *)
(***************************************************************************)
\* the candidate list and the decoder invocations of the current unit
Candidates == unit.passwords
Attempts == unit.attempts
NumAttempts == Len(unit.attempts)

\* the decoder rejected attempt k as a wrong password
WrongPasswordAt(k) == Attempts[k].outcome = "Wrong password"
\* the decoder failed attempt k for another reason
OtherFailureAt(k) == Attempts[k].outcome \notin {"ok", "Wrong password"}

\* the fragment _tryExtractWithPasswords returned is this failure
FailedWith(error) ==
  /\ unit.done
  /\ ~unit.success
  /\ unit.error = error
  /\ unit.usedPassword = Null

C2_OrderAndFirstSuccess ==
  /\ \A k \in 1..NumAttempts :
       /\ k - 1 <= Len(Candidates)
       /\ Attempts[k].password = IF k = 1 THEN Null ELSE Candidates[k - 1]
       /\ k < NumAttempts => WrongPasswordAt(k)
  /\ \A k \in 1..NumAttempts :
       Attempts[k].outcome = "ok" =>
         /\ k = NumAttempts
         /\ unit.done /\ unit.success /\ unit.error = Null
         /\ unit.usedPassword = Attempts[k].password
         /\ decoderCalls = k
  /\ unit.success => (NumAttempts >= 1 /\ Attempts[NumAttempts].outcome = "ok")

\* the scenario of C2: three candidates, the third one is accepted
C2_Witness ==
  /\ pc = "Extracted"
  /\ Len(Candidates) = 3
  /\ NumAttempts = 4
  /\ \A k \in 1..3 : WrongPasswordAt(k)
  /\ unit.success
  /\ unit.usedPassword = Candidates[3]
  /\ decoderCalls = 4

AllWrongPassword == \A k \in 1..NumAttempts : WrongPasswordAt(k)
\* the engine has run through the attempt without a password and all candidates
Exhausted == NumAttempts = 1 + Len(Candidates) /\ AllWrongPassword

\* C4 as claimed: for every candidate list, the empty one included, the
\* exhausted engine fails with "All passwords failed" after 1 + n invocations.
C4_AllPasswordsFailed ==
  Exhausted =>
    /\ FailedWith("All passwords failed")
    /\ decoderCalls = 1 + Len(Candidates)

\* C4 as amended: the exhausted engine fails after exactly 1 + n invocations,
\* with "All passwords failed" when there was a candidate and with
\* "No valid passwords found" when the candidate list was empty; and it never
\* fails so before it is exhausted.
C4_ExhaustedEngineFails ==
  /\ Exhausted =>
       /\ FailedWith(IF Len(Candidates) = 0 THEN "No valid passwords found"
                                            ELSE "All passwords failed")
       /\ decoderCalls = 1 + Len(Candidates)
  /\ (unit.done /\ unit.error \in {"All passwords failed", "No valid passwords found"})
       => Exhausted

\* three candidates, all rejected
C4_Witness ==
  /\ pc = "Extracted"
  /\ Len(Candidates) = 3
  /\ Exhausted
  /\ unit.error = "All passwords failed"
  /\ decoderCalls = 4

\* usageCount of a library password
UsageOf(value) ==
  LET k == CHOOSE j \in 1..Len(library) : library[j].value = value
  IN library[k].usageCount
LibraryValues == {library[k].value : k \in 1..Len(library)}
\* library passwords the caller did not supply
Recalled == LibraryValues \ Range(call.passwords)
\* the top-level unit is in the retry engine and the library is as it was read
InRetryEngine ==
  /\ pc \in {"Extracting", "Extracted"}
  /\ unit.level = 0
  /\ VolumeChecked[call.archiveFile].error = Null

\* C5: the candidates are the caller's passwords in the given order, then
\* the library passwords not supplied by the caller in descending usage
\* order, cut to maxPasswordAttempts entries; hence at most
\* 1 + maxPasswordAttempts decoder invocations for the unit.
C5_CandidateList ==
  InRetryEngine =>
    LET c == Candidates
        p == call.passwords
        m == options.maxPasswordAttempts
    IN /\ Len(c) = Min(m, Len(p) + Cardinality(Recalled))
       /\ \A k \in 1..Len(c) : k <= Len(p) => c[k] = p[k]
       /\ \A k \in 1..Len(c) : k > Len(p) => c[k] \in Recalled
       /\ \A j, k \in 1..Len(c) :
            (Len(p) < j /\ j < k) => (c[j] # c[k] /\ UsageOf(c[j]) >= UsageOf(c[k]))
       /\ \A v \in Recalled :
            v \notin Range(c) =>
              \A k \in 1..Len(c) : k > Len(p) => UsageOf(c[k]) >= UsageOf(v)
       /\ decoderCalls <= 1 + m

\* the list was cut, it ends with a library password that the sort moved in
\* front of a less used one stored before it, and every attempt was used
C5_Witness ==
  /\ pc = "Extracted"
  /\ unit.level = 0
  /\ Len(call.passwords) = 1
  /\ Len(library) = 2
  /\ library[1].usageCount < library[2].usageCount
  /\ Recalled = LibraryValues
  /\ options.maxPasswordAttempts = 2
  /\ Candidates = <<call.passwords[1], library[2].value>>
  /\ decoderCalls = 3

(***************************************************************************)
(* Properties of extractArchive with nested processing, checked under Spec.*)
(***************************************************************************)
\* a result and all results below it
RECURSIVE AllResults(_)
AllResults(r) ==
  {r} \cup UNION {AllResults(r.nestedArchives[k]) : k \in 1..Len(r.nestedArchives)}

\* the results the nested extractors have returned to activations still open
NestedResultsInFlight ==
  UNION {UNION {AllResults(frames[j].results[k]) :
                  k \in 1..Len(frames[j].results)} : j \in 1..Len(frames)}

\* every result a call of extractArchive has returned so far
ReturnedResults ==
  (IF pc = "Done" THEN AllResults(result) ELSE {}) \cup NestedResultsInFlight

IsSuccess(r) == r.success /\ r.outputPath # NullPath /\ r.error = Null
IsFailure(r) == ~r.success /\ r.error # Null /\ r.outputPath = NullPath

\* C6: every result extractArchive returns is either a success with an output
\* path and no error, or a failure with an error and no output path, never
\* both; and it has children only if it is a success and nested processing
\* is on.  An exception after a successful decode yields the failure form.
C6_ResultInvariant ==
  \A r \in ReturnedResults :
    /\ IsSuccess(r) \/ IsFailure(r)
    /\ ~(IsSuccess(r) /\ IsFailure(r))
    /\ r.nestedArchives # <<>> => (r.success /\ options.handleNested)

\* a top-level success with a child whose decode succeeded (a password was
\* accepted) and which then failed on the exception of updatePasswordUsage
C6_Witness ==
  /\ pc = "Done"
  /\ IsSuccess(result)
  /\ \E k \in 1..Len(result.nestedArchives) :
       /\ IsFailure(result.nestedArchives[k])
       /\ result.nestedArchives[k].usedPassword # Null

\* MaxFound + MaxFound^2 + ... + MaxFound^n
RECURSIVE FoundUpTo(_)
FoundUpTo(n) == IF n <= 0 THEN 0 ELSE MaxFound * (1 + FoundUpTo(n - 1))

\* candidates of one unit: the caller's or the parent's password, the library
CandidatesBound == Len(call.passwords) + Len(library)
\* nested units of one call, and activations of processNestedArchives
UnitsBound == IF options.handleNested THEN FoundUpTo(options.maxNestingDepth) ELSE 0
ActivationsBound ==
  IF options.handleNested THEN 1 + FoundUpTo(options.maxNestingDepth - 1) ELSE 0
DecoderBound == (1 + UnitsBound) * (1 + CandidatesBound)
StepBound == 2 + 2 * ActivationsBound + 2 * UnitsBound + DecoderBound

\* C7: a top-level call terminates: every step advances a counter that is
\* bounded by a function of the call's finite input, the number of decoder
\* invocations is bounded likewise, and the call is never stuck before Done;
\* this includes archives that contain a copy of themselves.
C7_Terminates ==
  /\ steps <= StepBound
  /\ decoderCalls <= DecoderBound
  /\ pc # "Done" => ENABLED Next
  /\ pc = "Done" => (frames = <<>> /\ ~ENABLED Next)

\* the call is done although the top-level archive held a copy of itself,
\* which held a copy of itself again, with cycle detection off
C7_Witness ==
  /\ pc = "Done"
  /\ ~options.enableCycleDetection
  /\ \E j \in 1..Len(result.nestedArchives) :
       LET child == result.nestedArchives[j]
       IN /\ child.archiveFile = call.archiveFile
          /\ child.success
          /\ \E k \in 1..Len(child.nestedArchives) :
               /\ child.nestedArchives[k].archiveFile = call.archiveFile
               /\ child.nestedArchives[k].success

\* C8: no result has a nestingLevel above maxNestingDepth, no unit below
\* that level reaches the decoder, and no activation at or below the cap
\* iterates over anything.
C8_DepthCap ==
  /\ \A r \in ReturnedResults : r.nestingLevel <= options.maxNestingDepth
  /\ unit.level <= options.maxNestingDepth
  /\ \A j \in 1..Len(frames) :
       frames[j].depth >= options.maxNestingDepth => frames[j].found = <<>>

\* a unit at the deepest allowed level was extracted and left archives in
\* its output, one level below the cap
C8_Witness ==
  /\ pc = "Extracted"
  /\ options.maxNestingDepth = MaxDepthCfg
  /\ unit.level = options.maxNestingDepth
  /\ unit.success
  /\ unit.produced # <<>>

\* the greatest nestingLevel of a result set, 0 for none
DeepestLevel(results) ==
  IF results = {} THEN 0
  ELSE CHOOSE n \in {r.nestingLevel : r \in results} :
         \A r \in results : r.nestingLevel <= n

\* C9 as claimed: after a top-level call with nested processing,
\* maxDepthReached is the greatest depth at which a nested archive was
\* processed.
C9_MaxDepthReached ==
  (pc = "Done" /\ nestedStatistics # <<>>) =>
    nestedStatistics[1].maxDepthReached = DeepestLevel(AllResults(result))

\* C10 as claimed: totalProcessed never exceeds maxTotalNestedArchives.
C10_TotalCap ==
  statistics.totalProcessed <= options.maxTotalNestedArchives

(***************************************************************************)
(* Properties of cycle detection, checked under Spec and SpecCycle.        *)
(***************************************************************************)
\* the running activation of processNestedArchives is about to look at a unit
AtCandidate ==
  /\ pc = "Recursing"
  /\ frames # <<>>
  /\ TopFrame.idx <= Len(TopFrame.found)
Candidate == TopFrame.found[TopFrame.idx]

\* the archives being processed above the candidate: the top-level archive
\* and the nested archive each open activation has recursed into
Ancestors ==
  {call.archiveFile} \cup
  {frames[j].found[frames[j].idx] : j \in 1..(Len(frames) - 1)}

\* the step skips the candidate: only the cycle counter and the loop index move
CandidateSkipped ==
  /\ statistics' = [statistics EXCEPT !.cyclesDetected = @ + 1]
  /\ frames' = [frames EXCEPT ![Len(frames)].idx = @ + 1]
  /\ pc' = "Recursing"
  /\ UNCHANGED <<unit, decoderCalls, currentPath, result, removed>>

\* C11 as claimed: with cycle detection on, a candidate whose fingerprint is
\* in the processed set or whose name is on the path stack is skipped: no
\* decoder call, cyclesDetected + 1, totalProcessed unchanged, next sibling.
C11_CycleSkipped ==
  [][(/\ AtCandidate
      /\ options.enableCycleDetection
      /\ \/ ContentHash(Candidate) \in processedHashes
         \/ Candidate.fileName \in Range(currentPath))
     => CandidateSkipped]_vars

\* C12 as claimed: with cycle detection on, a candidate whose bytes are those
\* of an ancestor in the recursion chain, the top-level archive included, is
\* skipped and counted as a cycle.
C12_AncestorCopySkipped ==
  [][(/\ AtCandidate
      /\ options.enableCycleDetection
      /\ \E a \in Ancestors : a.content = Candidate.content)
     => CandidateSkipped]_vars

\* how many results in a sequence of result trees are successful
\* extractions of a unit with fingerprint h
RECURSIVE Extractions(_, _)
Extractions(results, h) ==
  IF results = <<>> THEN 0
  ELSE LET r == Head(results)
       IN (IF r.success /\ ContentHash(r.archiveFile) = h THEN 1 ELSE 0)
          + Extractions(r.nestedArchives, h)
          + Extractions(Tail(results), h)

\* the same over the activations still open
RECURSIVE ExtractionsInFlight(_, _)
ExtractionsInFlight(fs, h) ==
  IF fs = <<>> THEN 0
  ELSE Extractions(Head(fs).results, h) + ExtractionsInFlight(Tail(fs), h)

Fingerprints == {ContentHash(f) : f \in packed}

\* C13 as claimed: with cycle detection on, no two nested units with the same
\* bytes and name are both extracted in one top-level call.
C13_AtMostOnce ==
  options.enableCycleDetection =>
    \A h \in Fingerprints :
      Extractions(result.nestedArchives, h) + ExtractionsInFlight(frames, h) <= 1

(***************************************************************************)
(* Properties of the cleanup of nested archive files.                      *)
(***************************************************************************)
\* the nested results whose recursion is still open: the last result of
\* every activation but the innermost
OpenResults ==
  {frames[j].results[Len(frames[j].results)] : j \in 1..(Len(frames) - 1)}

\* the nested units that have finished: extracted or failed, recursion and
\* cleanup done
FinishedNested ==
  {r \in ReturnedResults : r.nestingLevel >= 1} \ OpenResults

C15_CleanupAlwaysNever ==
  /\ options.nestedCleanupMode = "always" =>
       \A r \in FinishedNested : r.filePath \in removed
  /\ options.nestedCleanupMode = "never" =>
       (removed = {} /\ statistics.cleanedFiles = 0)

(***************************************************************************)
(* Batch calls: ArchiveExtractor.extractMultipleArchives, one extractor    *)
(* (and so one NestedArchiveProcessor) for all the archives of the batch.  *)
(***************************************************************************)
MaxBatch == 2      \* archives in one batch call

\* the head of the for loop: extractArchive(archiveFile, outputDir, passwords)
ExtractMultipleArchives ==
  /\ batch.api = "extractMultipleArchives"
  /\ pc = "Batch"
  /\ batch.i < Len(batch.archives)
  /\ call' = [archiveFile |-> batch.archives[batch.i + 1],
              passwords |-> batch.passwords]
  /\ result' = ExtractionResult(batch.archives[batch.i + 1], <<0>>)
  /\ nestedStatistics' = <<>>
  /\ unit' = NoUnit
  /\ decoderCalls' = 0
  /\ steps' = 0
  /\ pc' = "Idle"
  /\ UNCHANGED <<callbacks, scan, options, library, packed, batch, frames, processedHashes,
                 currentPath, statistics, removed, sevenZipInitialized>>

\* a batch loop that drops the result of a failed archive
PushResultDropsFailures ==
  /\ batch.api = "extractMultipleArchives"
  /\ pc = "Done"
  /\ batch' = [batch EXCEPT
                 !.i = @ + 1,
                 !.results = IF result.success
                               THEN Append(@, [result |-> result,
                                               nestedStatistics |-> nestedStatistics])
                               ELSE @]
  /\ pc' = "Batch"
  /\ UNCHANGED <<callbacks, scan, options, library, call, packed, unit, result, nestedStatistics,
                 frames, processedHashes, currentPath, statistics, removed,
                 decoderCalls, sevenZipInitialized, steps>>

\* extractArchive has returned: results.push(result)
PushResult ==
  /\ batch.api = "extractMultipleArchives"
  /\ pc = "Done"
  /\ batch' = [batch EXCEPT
                 !.i = @ + 1,
                 !.results = Append(@, [result |-> result,
                                        nestedStatistics |-> nestedStatistics])]
  /\ pc' = "Batch"
  /\ UNCHANGED <<callbacks, scan, options, library, call, packed, unit, result, nestedStatistics,
                 frames, processedHashes, currentPath, statistics, removed,
                 decoderCalls, sevenZipInitialized, steps>>

\* the loop is over: return results
ReturnResults ==
  /\ batch.api = "extractMultipleArchives"
  /\ pc = "Batch"
  /\ batch.i = Len(batch.archives)
  /\ pc' = "Returned"
  /\ UNCHANGED <<callbacks, scan, options, library, call, packed, batch, unit, result,
                 nestedStatistics, frames, processedHashes, currentPath,
                 statistics, removed, decoderCalls, sevenZipInitialized, steps>>

(***************************************************************************)
(* Batch calls: extractArchives of archiveProcessor.js (ES module).        *)
(***************************************************************************)
\* how one call of the ES module's decoder ends: it resolves, it rejects
\* with the wrong-password message, it rejects with another message
EsmOutcomes == {"ok", "wrong password", "failed"}

\* the archives extractArchives is given: a regular one, and one whose
\* fileName is missing, on which path.parse throws
EsmFiles == {PlainFile("a.zip", 1), PlainFile(Null, 1)}

\* what processNestedArchives of the ES module returns for one output
\* directory, as far as the batch looks at it: its list of nested results
EsmNestedResults ==
  {<<>>, <<[success |-> TRUE, nestingLevel |-> 1]>>,
   <<[success |-> FALSE, nestingLevel |-> 1]>>}

\* the first password the decoder accepts, 0 if none: for (const password
\* of passwords) with break on success and continue on any error
FirstAccepted(outcomes, passwords) ==
  LET hits == {k \in 1..Len(passwords) : outcomes[k] = "ok"}
  IN IF hits = {} THEN 0 ELSE CHOOSE k \in hits : \A j \in hits : k <= j

\* the attempts of extractArchives for one archive: without a password,
\* then, after a wrong-password rejection, with each password in turn
EsmTryPasswords(first, outcomes, passwords) ==
  IF first = "ok"
    THEN [success |-> TRUE, usedPassword |-> Null, calls |-> 1]
  ELSE IF first = "wrong password" /\ passwords # <<>>
    THEN LET k == FirstAccepted(outcomes, passwords)
         IN IF k = 0
              THEN [success |-> FALSE, usedPassword |-> Null,
                    calls |-> 1 + Len(passwords)]
              ELSE [success |-> TRUE, usedPassword |-> passwords[k],
                    calls |-> 1 + k]
  ELSE [success |-> FALSE, usedPassword |-> Null, calls |-> 1]

\* the result object extractArchives pushes for one archive
EsmResult(archive, tried, outputDir, nested) ==
  [archiveFile |-> archive,
   success |-> tried.success,
   outputPath |-> IF tried.success THEN outputDir ELSE NullPath,
   usedPassword |-> tried.usedPassword,
   error |-> IF tried.success THEN Null ELSE "extract failed",
   nestedArchives |-> nested]

\* the result pushed by the catch around one iteration
EsmCaught(archive, message) ==
  [archiveFile |-> archive, success |-> FALSE, outputPath |-> NullPath,
   usedPassword |-> Null, error |-> message, nestedArchives |-> <<>>]

\* await fs.mkdir(outputDir, { recursive: true }) before the loop: when it
\* rejects, so does the whole call, before any archive is looked at
ExtractArchivesMkdir ==
  /\ batch.api = "extractArchives"
  /\ pc = "EsmStart"
  /\ \E made \in BOOLEAN : pc' = IF made THEN "EsmLoop" ELSE "Rejected"
  /\ UNCHANGED <<callbacks, scan, options, library, call, packed, batch, unit, result,
                 nestedStatistics, frames, processedHashes, currentPath,
                 statistics, removed, decoderCalls, sevenZipInitialized, steps>>

\* one iteration of the for loop of extractArchives
ExtractArchivesUnit ==
  /\ batch.api = "extractArchives"
  /\ pc = "EsmLoop"
  /\ batch.i < Len(batch.archives)
  /\ LET archive == batch.archives[batch.i + 1]
     IN IF archive.fileName = Null
          THEN \* path.parse(archive.fileName) throws: the outer catch
               /\ batch' = [batch EXCEPT
                              !.i = @ + 1,
                              !.results = Append(@,
                                [result |-> EsmCaught(archive, "The path argument must be of type string"),
                                 nestedStatistics |-> <<>>])]
               /\ UNCHANGED decoderCalls
          ELSE \E first \in EsmOutcomes,
                  outcomes \in [1..Len(batch.passwords) -> EsmOutcomes],
                  nested \in EsmNestedResults :
                 LET tried == EsmTryPasswords(first, outcomes, batch.passwords)
                 IN /\ tried.success \/ nested = <<>>
                    /\ batch' = [batch EXCEPT
                                   !.i = @ + 1,
                                   !.results = Append(@,
                                     [result |-> EsmResult(archive, tried,
                                                           <<1 + batch.i>>, nested),
                                      nestedStatistics |-> <<>>])]
                    /\ decoderCalls' = decoderCalls + tried.calls
  /\ UNCHANGED <<callbacks, scan, options, library, call, packed, pc, unit, result,
                 nestedStatistics, frames, processedHashes, currentPath,
                 statistics, removed, sevenZipInitialized, steps>>

\* the loop is over: return results
ExtractArchivesReturn ==
  /\ batch.api = "extractArchives"
  /\ pc = "EsmLoop"
  /\ batch.i = Len(batch.archives)
  /\ pc' = "Returned"
  /\ UNCHANGED <<callbacks, scan, options, library, call, packed, batch, unit, result,
                 nestedStatistics, frames, processedHashes, currentPath,
                 statistics, removed, decoderCalls, sevenZipInitialized, steps>>

\* the batch calls: an extractor with nested processing is handed a batch,
\* or extractArchives is
Batches ==
  [api : {"extractMultipleArchives"},
   archives : SeqsUpTo(BatchFiles, MaxBatch),
   passwords : {<<>>}, i : {0}, results : {<<>>}]
  \cup
  [api : {"extractArchives"},
   archives : SeqsUpTo(EsmFiles, MaxBatch),
   passwords : {<<>>, <<"p1", "p2">>}, i : {0}, results : {<<>>}]

InitBatch ==
  /\ options = [maxPasswordAttempts |-> DefaultMaxPasswordAttempts,
                handleNested |-> TRUE,
                maxNestingDepth |-> 1,
                maxTotalNestedArchives |-> MaxTotalCfg,
                enableCycleDetection |-> TRUE,
                nestedCleanupMode |-> "success"]
  /\ library = <<>>
  /\ packed = BatchNestedFiles
  /\ batch \in Batches
  /\ call = [archiveFile |-> PlainFile("a.zip", 1), passwords |-> <<>>]
  /\ pc = IF batch.api = "extractArchives" THEN "EsmStart" ELSE "Batch"
  /\ scan = NoScan
  /\ unit = NoUnit
  /\ result = ExtractionResult(call.archiveFile, <<0>>)
  /\ nestedStatistics = <<>>
  /\ frames = <<>>
  /\ processedHashes = {}
  /\ currentPath = <<>>
  /\ statistics = ZeroStatistics
  /\ removed = {}
  /\ decoderCalls = 0
  /\ sevenZipInitialized = FALSE
  /\ callbacks = <<>>
  /\ steps = 0

NextBatch ==
  \/ ExtractMultipleArchives
  \/ PushResult
  \/ ReturnResults
  \/ ExtractArchivesMkdir
  \/ ExtractArchivesUnit
  \/ ExtractArchivesReturn
  \/ Next

SpecBatch == InitBatch /\ [][NextBatch]_vars

(***************************************************************************)
(* Properties of batch calls, checked under SpecBatch.                     *)
(***************************************************************************)
\* the results in a sequence of result trees, counted one by one
RECURSIVE NestedCount(_)
NestedCount(results) ==
  IF results = <<>> THEN 0
  ELSE 1 + NestedCount(Head(results).nestedArchives) + NestedCount(Tail(results))

\* the successful ones among them
RECURSIVE NestedSuccesses(_)
NestedSuccesses(results) ==
  IF results = <<>> THEN 0
  ELSE (IF Head(results).success THEN 1 ELSE 0)
       + NestedSuccesses(Head(results).nestedArchives)
       + NestedSuccesses(Tail(results))

\* the fingerprints of the nested units the running top-level call has
\* handed to the nested extractor so far
FingerprintsOfThisCall ==
  {ContentHash(r.archiveFile) : r \in NestedResultsInFlight}
  \cup (IF unit.level > 0 THEN {ContentHash(unit.archiveFile)} ELSE {})

\* the counters agree with the nested results of one top-level result
CountsOnly(r, stats) ==
  /\ stats.totalProcessed = NestedCount(r.nestedArchives)
  /\ stats.successfulExtractions = NestedSuccesses(r.nestedArchives)
  /\ stats.failedExtractions =
       NestedCount(r.nestedArchives) - NestedSuccesses(r.nestedArchives)

EsmBatchCompleted ==
  /\ pc = "Returned"
  /\ batch.api = "extractArchives"
  /\ Len(batch.results) = 2
  /\ IsFailure(batch.results[1].result)
  /\ IsSuccess(batch.results[2].result)
  /\ batch.results[2].result.usedPassword = "p2"

(***************************************************************************)
(* The file scanner and the volume handler called on their own: one call   *)
(* of scanForArchives on what a walk found, or analyzeVolumeGroup and      *)
(* validateVolumeIntegrity on one volume group.                            *)
(***************************************************************************)
MaxScanned == 3        \* files one walk finds
DiskFile(fileName, directory, size, probe) ==
  [fileName |-> fileName, directory |-> directory, size |-> size, probe |-> probe]

\* what a walk can find: volumes of the five families, plain archives, a
\* text file that is an archive in disguise and one that is not
DiskFiles ==
  {DiskFile(Movie \o <<Part(<<0, 1>>), Word("rar")>>, "d", 100, FALSE),
   DiskFile(Movie \o <<Part(<<0, 2>>), Word("rar")>>, "d", 100, FALSE),
   DiskFile(Movie \o <<Num(<<0, 0, 1>>)>>, "d", 100, FALSE),
   DiskFile(Movie \o <<Num(<<0, 0, 2>>)>>, "d", 100, FALSE),
   DiskFile(Movie \o <<Num(<<0, 0, 2>>)>>, "e", 100, FALSE),
   DiskFile(Movie \o <<Num(<<0, 0, 6>>)>>, "d", 100, FALSE),
   DiskFile(Movie \o <<Word("rar")>>, "d", 100, FALSE),
   DiskFile(Movie \o <<RSeg(<<0, 0>>)>>, "d", 100, FALSE),
   DiskFile(Movie \o <<RSeg(<<0, 1>>)>>, "d", 100, FALSE),
   DiskFile(Movie \o <<Word("zip")>>, "d", 100, FALSE),
   DiskFile(Movie \o <<ZSeg(<<0, 1>>)>>, "d", 100, FALSE),
   DiskFile(Movie \o <<Word("7z"), Num(<<0, 0, 1>>)>>, "d", 100, FALSE),
   DiskFile(Movie \o <<Word("7z"), Num(<<0, 0, 2>>)>>, "d", 100, FALSE),
   DiskFile(<<Word("notes"), Word("txt")>>, "d", SuspiciousSize + 1, TRUE),
   DiskFile(<<Word("notes"), Word("txt")>>, "e", 100, FALSE)}

InitVolumes ==
  /\ options = [maxPasswordAttempts |-> DefaultMaxPasswordAttempts,
                handleNested |-> TRUE,
                maxNestingDepth |-> 1,
                maxTotalNestedArchives |-> MaxTotalCfg,
                enableCycleDetection |-> TRUE,
                nestedCleanupMode |-> "success"]
  /\ library = <<>>
  /\ packed = {}
  /\ call = [archiveFile |-> PlainFile("a.zip", 1), passwords |-> <<>>]
  /\ batch = NoBatch
  /\ unit = NoUnit
  /\ result = ExtractionResult(call.archiveFile, <<0>>)
  /\ nestedStatistics = <<>>
  /\ frames = <<>>
  /\ processedHashes = {}
  /\ currentPath = <<>>
  /\ statistics = ZeroStatistics
  /\ removed = {}
  /\ decoderCalls = 0
  /\ sevenZipInitialized = FALSE
  /\ callbacks = <<>>
  /\ steps = 0
  /\ \/ /\ pc = "Scan"
        /\ \E found \in DistinctSeqs(DiskFiles, MaxScanned) :
             scan = [NoScan EXCEPT !.found = found]
     \/ /\ pc = "Volumes"
        /\ \E volumeGroup \in VolumeGroups :
             scan = [NoScan EXCEPT !.volumeGroup = volumeGroup]

\* fileScanner.scanForArchives returns or throws
Scan ==
  /\ pc = "Scan"
  /\ scan' = [scan EXCEPT !.scanned = ScanForArchives(scan.found)]
  /\ pc' = "Scanned"
  /\ UNCHANGED <<callbacks, options, library, call, packed, batch, unit, result,
                 nestedStatistics, frames, processedHashes, currentPath,
                 statistics, removed, decoderCalls, sevenZipInitialized, steps>>

\* volumeHandler.analyzeVolumeGroup returns or throws
Analyze ==
  /\ pc = "Volumes"
  /\ scan' = [scan EXCEPT !.analysis = AnalyzeVolumeGroup(scan.volumeGroup)]
  /\ pc' = "Analyzed"
  /\ UNCHANGED <<callbacks, options, library, call, packed, batch, unit, result,
                 nestedStatistics, frames, processedHashes, currentPath,
                 statistics, removed, decoderCalls, sevenZipInitialized, steps>>

\* volumeHandler.validateVolumeIntegrity returns or throws
Validate ==
  /\ pc \in {"Volumes", "Analyzed"}
  /\ scan' = [scan EXCEPT !.integrity = ValidateVolumeIntegrity(scan.volumeGroup)]
  /\ pc' = "Validated"
  /\ UNCHANGED <<callbacks, options, library, call, packed, batch, unit, result,
                 nestedStatistics, frames, processedHashes, currentPath,
                 statistics, removed, decoderCalls, sevenZipInitialized, steps>>

NextVolumes ==
  \/ Scan
  \/ Analyze
  \/ Validate

SpecVolumes == InitVolumes /\ [][NextVolumes]_vars

(***************************************************************************)
(* Properties of the scanner and of the volume handler, checked under      *)
(* SpecVolumes.                                                            *)
(***************************************************************************)
\* the multi-volume set a file name belongs to: its family and base name;
\* the '.rar' ('.zip') file of a legacy set belongs to the set of the
\* '.rNN' ('.zNN') files next to it
SetKey(fileName) ==
  IF DetectVolumePattern(fileName) # NoPattern
    THEN <<DetectVolumePattern(fileName),
           GetBaseName(DetectVolumePattern(fileName), fileName)>>
  ELSE IF HasExtension(fileName, {"rar"}) THEN <<"rar_r", fileName>>
  ELSE IF HasExtension(fileName, {"zip"}) THEN <<"zip_z", fileName>>
  ELSE <<>>

\* two files of one multi-volume set
Siblings(f, g) ==
  /\ f.fileName # g.fileName
  /\ f.directory = g.directory
  /\ SetKey(f.fileName) # <<>>
  /\ SetKey(f.fileName) = SetKey(g.fileName)

\* C18 as claimed: after a scan no two returned units are volumes of one
\* set, and a returned unit carries in volumeGroup every volume of its set
\* that the walk found.
C18_OneUnitPerVolumeSet ==
  pc = "Scanned" =>
    LET units == scan.scanned.units
    IN /\ \A j, k \in 1..Len(units) : j # k => ~Siblings(units[j], units[k])
       /\ \A k \in 1..Len(units) : \A f \in Range(scan.found) :
            Siblings(units[k], f) => f.fileName \in Range(units[k].volumeGroup)

\* the volume numbers of the files of a group, read by one family
NumbersPresent(volumeGroup, pattern) ==
  {GetVolumeNumber(pattern, volumeGroup[k].fileName) : k \in 1..Len(volumeGroup)}

\* the integers between the lowest and the highest number that are absent
Gaps(numbers) ==
  {n \in 0..(10 * MaxVolumeNumber) :
     /\ n \notin numbers
     /\ \E lo, hi \in numbers : lo < n /\ n < hi}

\* the file that would close the gap: read by the family of the group it
\* has the base name of the group and the number of the gap
ClosesGap(m, analysis) ==
  /\ DetectVolumePattern(m.expectedFileName) = analysis.pattern
  /\ GetBaseName(analysis.pattern, m.expectedFileName) = analysis.baseName
  /\ GetVolumeNumber(analysis.pattern, m.expectedFileName) = m.number

\* C19 as claimed: for a volume group with a gap, analyzeVolumeGroup lists
\* in `missing` every absent number between the lowest and the highest
\* number present exactly once and no number that is present, each with the
\* file name its family gives the volume of that number (numeric, base
\* movie, gap 2: movie.002).
C19_GapsListed ==
  (pc = "Analyzed" /\ scan.volumeGroup # <<>>) =>
    LET analysis == scan.analysis
        gaps == Gaps(NumbersPresent(scan.volumeGroup, analysis.pattern))
    IN gaps # {} =>
         /\ {analysis.missing[k].number : k \in 1..Len(analysis.missing)} = gaps
         /\ Len(analysis.missing) = Cardinality(gaps)
         /\ \A k \in 1..Len(analysis.missing) :
              /\ ClosesGap(analysis.missing[k], analysis)
              /\ (analysis.pattern = "numeric" /\ analysis.baseName = Movie
                  /\ analysis.missing[k].number = 2)
                   => analysis.missing[k].expectedFileName = Movie \o <<Num(<<0, 0, 2>>)>>

\* the group in hand has a file of some family, and its numbers, read by
\* that family, run from the lowest to the highest without a gap
Contiguous ==
  /\ scan.volumeGroup # <<>>
  /\ DetectVolumePattern(scan.volumeGroup[1].fileName) # NoPattern
  /\ Gaps(NumbersPresent(scan.volumeGroup,
                         DetectVolumePattern(scan.volumeGroup[1].fileName))) = {}

DigitOf(volume) == volume.fileName[2].d[3]

\* the numbers absent between the lowest and the highest of a numeric group
AbsentNumbers(archiveFile) ==
  LET present == {DigitOf(archiveFile.volumeGroup.volumes[k]) :
                    k \in 1..Len(archiveFile.volumeGroup.volumes)}
  IN {n \in 0..9 : n \notin present /\ \E lo, hi \in present : lo < n /\ n < hi}

\* the unit of the running call is a volume group with gaps
GapUnit ==
  /\ call.archiveFile.isVolume
  /\ call.archiveFile.volumeGroup.present
  /\ AbsentNumbers(call.archiveFile) # {}

C22_AnalysisNeverFails ==
  pc = "Analyzed" => ~scan.analysis.threw

(***************************************************************************)
(* The primary volume in extraction, checked under SpecVolumeUnits (C23).  *)
(***************************************************************************)
\* the number a volume name carries: the digits as they are, one more in the
\* legacy families (.r00 is volume 1)
NumberInName(fileName) ==
  LET last == fileName[Len(fileName)]
  IN CASE last.t = "num" -> ParseInt(last.d)
       [] last.t = "r" -> ParseInt(last.d) + 1
       [] last.t = "z" -> ParseInt(last.d) + 1
       [] OTHER -> ParseInt(fileName[Len(fileName) - 1].d)

VolumesOfCall == call.archiveFile.volumeGroup.volumes

\* the numbers of the group leave no gap
NoGapInCall ==
  LET present == {NumberInName(VolumesOfCall[k].fileName) : k \in 1..Len(VolumesOfCall)}
  IN \A n \in 0..(10 * MaxVolumeNumber) :
       (\E lo, hi \in present : lo < n /\ n < hi) => n \in present

GlobalCandidates ==
  GetAllAvailablePasswords(call.passwords, library, options.maxPasswordAttempts)

\* a nested unit is in the retry engine
NestedInRetryEngine ==
  /\ pc \in {"Extracting", "Extracted"}
  /\ unit.level > 0
  /\ VolumeChecked[unit.archiveFile].error = Null

\* C24: the attempts of a nested unit are made without a password first,
\* then with the parent's successful password when it had one, then with
\* the candidates of the top-level call: the caller's passwords, then the
\* library passwords.
C24_NestedAttemptOrder ==
  NestedInRetryEngine =>
    LET parent == NestedPasswords(TopFrame)
        expected == parent \o SelectSeq(GlobalCandidates,
                                        LAMBDA v : v \notin Range(parent))
    IN /\ unit.passwords = expected
       /\ \A k \in 1..Len(unit.attempts) :
            unit.attempts[k].password =
              IF k = 1 THEN Null ELSE unit.passwords[k - 1]

(***************************************************************************)
(* Sequential processing within one call, checked under Spec (C25).        *)
(***************************************************************************)
\* a nested unit is between the start of its extractArchive and its return
NestedUnitInFlight == pc \in {"Extracting", "Extracted"} /\ unit.level > 0

\* the nested results that are open at each level: the one whose
\* subtree is being processed
OpenLevels == 1..(Len(frames) - 1)

\* C25: within one call one extraction is in flight at a time. At each level
\* only the sibling the loop stands at is open, the stack of activations is
\* the chain from the top-level unit down to the unit in flight, and when
\* the extraction of a sibling B starts every sibling A before it has
\* returned with its subtree and has been cleaned up.
C25_Sequential ==
  /\ \A k \in OpenLevels :
       LET p == frames[k]
       IN /\ p.results # <<>>
          /\ p.idx <= Len(p.found)
          /\ Last(p.results).filePath = Append(p.extractedDir, p.idx)
          /\ Last(p.results).success
          /\ frames[k + 1].extractedDir = Last(p.results).outputPath
          /\ Append(p.extractedDir, p.idx) \notin removed
  /\ Len(currentPath) = Max(0, Len(frames) - 1) + (IF NestedUnitInFlight THEN 1 ELSE 0)
  /\ (pc \in {"Extracting", "Extracted"} /\ unit.level = 0) => frames = <<>>
  /\ NestedUnitInFlight =>
       LET f == TopFrame
       IN /\ unit.filePath = Append(f.extractedDir, f.idx)
          /\ unit.level = Len(frames)
          /\ \A j \in 1..Len(f.results) :
               LET A == f.results[j]
               IN /\ \E i \in 1..(f.idx - 1) : A.filePath = Append(f.extractedDir, i)
                  /\ (A.success /\ options.nestedCleanupMode # "never") => A.filePath \in removed
                  /\ \A n \in 1..Len(A.nestedArchives) :
                       A.nestedArchives[n].nestingLevel = unit.level + 1

\* the second sibling is being extracted after the first was extracted, its
\* own nested archive was extracted below it, and the first was removed
C25_Witness ==
  /\ pc = "Extracting"
  /\ unit.level = 1
  /\ TopFrame.idx = 2
  /\ Len(TopFrame.results) = 1
  /\ TopFrame.results[1].success
  /\ TopFrame.results[1].nestedArchives # <<>>
  /\ TopFrame.results[1].filePath \in removed
  /\ unit.attempts # <<>>

(***************************************************************************)
(* Two extractors at once (C26).  Each ArchiveExtractor has its own        *)
(* options, nestedProcessor, fingerprints, path and statistics; what two   *)
(* instances share is the password library of passwordStore.  The call     *)
(* followed here is as in Spec; of the other extractor's call the one step *)
(* that touches shared state is modelled, the updatePasswordUsage of its   *)
(* successful unit.                                                        *)
(***************************************************************************)
\* the library before either call
Library0 ==
  <<[value |-> "p1", usageCount |-> 1], [value |-> "p2", usageCount |-> 1]>>

\* the other extractor: its call has not yet recorded a password
OtherExtractor ==
  [api |-> "extractArchive", archives |-> <<>>, passwords |-> <<>>, i |-> 0,
   results |-> <<>>]

InitTwoExtractors ==
  /\ options \in NestedOptions(1)
  /\ library = Library0
  /\ call \in [archiveFile : {PlainFile("a.zip", 1)}, passwords : {<<>>, <<"p3">>}]
  /\ packed = NestedFiles
  /\ pc = "Idle"
  /\ scan = NoScan
  /\ batch = OtherExtractor
  /\ unit = NoUnit
  /\ result = ExtractionResult(call.archiveFile, <<0>>)
  /\ nestedStatistics = <<>>
  /\ frames = <<>>
  /\ processedHashes = {}
  /\ currentPath = <<>>
  /\ statistics = ZeroStatistics
  /\ removed = {}
  /\ decoderCalls = 0
  /\ sevenZipInitialized = FALSE
  /\ callbacks = <<>>
  /\ steps = 0

\* the other extractor's unit succeeded with a library password while the
\* call followed here is under way: _extractSingleArchive of that instance
\* calls updatePasswordUsage(result.usedPassword)
OtherExtractorSucceeds ==
  /\ pc \notin {"Idle", "Done"}
  /\ batch.passwords = <<>>
  /\ \E password \in {library[k].value : k \in 1..Len(library)} :
       /\ library' = UpdatePasswordUsage(library, password)
       /\ batch' = [batch EXCEPT !.passwords = <<password>>]
  /\ UNCHANGED <<callbacks, scan, options, call, packed, pc, unit, result, nestedStatistics,
                 frames, processedHashes, currentPath, statistics, removed,
                 decoderCalls, sevenZipInitialized, steps>>

NextTwoExtractors ==
  \/ OtherExtractorSucceeds
  \/ Next

SpecTwoExtractors == InitTwoExtractors /\ [][NextTwoExtractors]_vars

\* the call followed here has itself recorded no password in the library
NoOwnUsage ==
  /\ result.usedPassword \notin {library[k].value : k \in 1..Len(library)}
  /\ \A k \in 1..Len(frames) : \A j \in 1..Len(frames[k].results) :
       frames[k].results[j].usedPassword
         \notin {library[n].value : n \in 1..Len(library)}

\* C26: a call is not changed by a call that another extractor runs at the
\* same time.  For the candidate order: as long as the call has recorded no
\* password itself, the candidates of each of its units are those computed
\* from the library as it was before the two calls.
C26_NoInterference ==
  /\ InRetryEngine =>
       unit.passwords =
         GetAllAvailablePasswords(call.passwords, Library0, options.maxPasswordAttempts)
  /\ (NestedInRetryEngine /\ NoOwnUsage) =>
       unit.passwords =
         GetAllAvailablePasswords(NestedPasswords(TopFrame), Library0,
                                  DefaultMaxPasswordAttempts)

(***************************************************************************)
(* The library during one call, checked under Spec (C27).                  *)
(***************************************************************************)
\* C27: within one top-level call the library is read once, as a snapshot,
\* and no step of the call writes usage counts to it: the library stays as
\* it was when the call began.
C27_LibraryOnlyRead == [][library' = library]_vars

(***************************************************************************)
(* The retry engine as a function of its candidates and of the decoder's   *)
(* outcomes, checked under SpecTwoExtractors, where the engine runs again  *)
(* for every nested unit, the top-level archive itself among them (C28).   *)
(***************************************************************************)
\* the decoder outcomes the engine has met so far
OutcomesSoFar == [k \in 1..Len(unit.attempts) |-> unit.attempts[k].outcome]

\* what a run on candidates c that met the outcomes o has to show:
\* whether it has returned, the passwords of its invocations, and what it
\* returned
Determined(c, o) ==
  LET n == Len(o)
      ended == n >= 1 /\ (o[n] # "Wrong password" \/ n = 1 + Len(c))
      success == n >= 1 /\ o[n] = "ok"
  IN [done |-> ended,
      invocations |-> [k \in 1..n |-> IF k = 1 THEN Null ELSE c[k - 1]],
      success |-> success,
      usedPassword |-> IF success /\ n > 1 THEN c[n - 1] ELSE Null,
      error |-> IF ~ended \/ success THEN Null
                ELSE IF o[n] # "Wrong password" THEN "Failed to extract"
                ELSE IF c = <<>> THEN "No valid passwords found"
                ELSE "All passwords failed"]

\* the unit in the retry engine, the decoder started
EngineRunning ==
  /\ pc \in {"Extracting", "Extracted"}
  /\ VolumeChecked[unit.archiveFile].error = Null
  /\ ~(unit.done /\ unit.attempts = <<>>)     \* sevenZip.initialize() threw

\* C28: what the engine does is determined by the candidate list and the
\* outcomes of the decoder, and by nothing else: the invocations and their
\* order, whether it has returned, and the success flag, usedPassword and
\* error it returns are the same in every run with the same two inputs,
\* a run that follows earlier runs included.
C28_RetryDeterministic ==
  EngineRunning =>
    LET d == Determined(unit.passwords, OutcomesSoFar)
    IN /\ Len(OutcomesSoFar) <= 1 + Len(unit.passwords)
       /\ unit.done = d.done
       /\ [k \in 1..Len(unit.attempts) |-> unit.attempts[k].password] = d.invocations
       /\ unit.success = d.success
       /\ unit.usedPassword = d.usedPassword
       /\ unit.error = d.error

\* the archive of the call is met again one level down, after the call's
\* own run and with the decoder initialised, and is opened by its second
\* candidate
C28_Witness ==
  /\ pc = "Extracted"
  /\ unit.level = 1
  /\ unit.archiveFile = call.archiveFile
  /\ sevenZipInitialized
  /\ Len(unit.passwords) = 2
  /\ Len(unit.attempts) = 3
  /\ unit.success
  /\ unit.usedPassword = unit.passwords[2]

(***************************************************************************)
(* The caps of processNestedArchives, checked under Spec (C29).            *)
(***************************************************************************)
\* the activation f meets one of the two caps at its entry
Capped(f) ==
  \/ f.depth >= options.maxNestingDepth
  \/ statistics.totalProcessed >= options.maxTotalNestedArchives

\* the activation on top has just been entered
JustEntered == TopFrame.idx = 1 /\ TopFrame.results = <<>>

\* C29: an activation of processNestedArchives that meets the depth cap or
\* the total cap iterates over nothing and returns the empty sequence; no
\* failure is counted, and the result of the parent keeps its success flag
\* and its error.
C29_CapsAreNotFailures ==
  [][/\ (pc = "Scanning" /\ Capped(TopFrame)) =>
          /\ pc' = "Recursing"
          /\ frames'[Len(frames)].found = <<>>
          /\ Len(frames') = Len(frames)
          /\ statistics'.failedExtractions = statistics.failedExtractions
          /\ statistics'.totalProcessed = statistics.totalProcessed
          /\ result' = result
     /\ (pc = "Recursing" /\ JustEntered /\ Capped(TopFrame) /\ TopFrame.found = <<>>) =>
          /\ statistics'.failedExtractions = statistics.failedExtractions
          /\ decoderCalls' = decoderCalls
          /\ IF Len(frames) = 1
               THEN /\ pc' = "Done"
                    /\ result'.nestedArchives = <<>>
                    /\ result'.success = result.success
                    /\ result'.error = result.error
               ELSE LET before == Last(frames[Len(frames) - 1].results)
                        after == Last(frames'[Len(frames')].results)
                    IN /\ Len(frames') = Len(frames) - 1
                       /\ after.nestedArchives = <<>>
                       /\ after.success = before.success
                       /\ after.error = before.error
                       /\ after.outputPath = before.outputPath]_vars

\* a nested archive was extracted and held archives itself, but the total
\* cap was reached: the activation for its output has found nothing
C29_Witness ==
  /\ pc = "Recursing"
  /\ Len(frames) = 2
  /\ JustEntered
  /\ TopFrame.depth < options.maxNestingDepth
  /\ statistics.totalProcessed >= options.maxTotalNestedArchives
  /\ TopFrame.produced # <<>>
  /\ TopFrame.found = <<>>
  /\ statistics.failedExtractions = 0
  /\ Last(frames[1].results).success

(***************************************************************************)
(* One decoder invocation as a process: sevenZip.extractArchive starts 7z  *)
(* with exec and a timeout, or, when a progress callback was supplied,     *)
(* with spawn through _extractWithProgress (C30).                          *)
(***************************************************************************)
\* _extractWithProgress: the settlement in the close handler of the child
ExtractWithProgress(raw) ==
  IF raw.indicator
    THEN ExtractionFailed("Wrong password")
  ELSE IF ~raw.exitError /\ raw.everythingOk
    THEN [ok |-> TRUE, message |-> Null, reason |-> Null]
  ELSE ExtractionFailed(IF raw.stderr # "" THEN raw.stderr
                                           ELSE "Process exited with code")

\* one extractArchive call, with or without options.onProgress
InitDecoder ==
  /\ options \in [maxPasswordAttempts : {DefaultMaxPasswordAttempts},
                  handleNested : {FALSE},
                  maxNestingDepth : {5},
                  maxTotalNestedArchives : {50},
                  enableCycleDetection : {TRUE},
                  nestedCleanupMode : {"success"},
                  onProgress : BOOLEAN]
  /\ library = <<>>
  /\ call \in [archiveFile : {PlainFile("a.zip", 1)},
               passwords : SeqsUpTo(Passwords, MaxProvided)]
  /\ packed = {}
  /\ InitCommon

\* sevenZip.extractArchive up to the start of the 7z process, which is one
\* that will finish ("Decoding") or one that never does ("Hung")
StartDecoder ==
  /\ pc = "Extracting"
  /\ pc' \in {"Decoding", "Hung"}
  /\ decoderCalls' = decoderCalls + 1
  /\ sevenZipInitialized' = TRUE
  /\ steps' = steps + 1
  /\ UNCHANGED <<callbacks, scan, options, packed, batch, library, call, unit, result,
                 nestedStatistics, frames, processedHashes, currentPath,
                 statistics, removed>>

\* the process has finished: the callback of exec, or the close handler of
\* the spawned child, settles the promise
DecoderCloses ==
  /\ pc = "Decoding"
  /\ \E raw \in RawOutputs :
       LET res == IF options.onProgress THEN ExtractWithProgress(raw)
                                        ELSE SevenZipExtractArchive(raw)
       IN unit' = TryExtractWithPasswords(unit, res, <<>>)
  /\ pc' = IF unit'.done THEN "Extracted" ELSE "Extracting"
  /\ steps' = steps + 1
  /\ UNCHANGED <<callbacks, scan, options, packed, batch, library, call, result,
                 nestedStatistics, frames, processedHashes, currentPath,
                 statistics, removed, decoderCalls, sevenZipInitialized>>

\* exec(command, {timeout: 60000}): the process is killed and the callback
\* is called with the error and the output so far
DecoderTimesOut ==
  /\ pc = "Hung"
  /\ ~options.onProgress
  /\ \E raw \in {r \in RawOutputs : r.exitError /\ ~r.everythingOk} :
       unit' = TryExtractWithPasswords(unit, SevenZipExtractArchive(raw), <<>>)
  /\ pc' = IF unit'.done THEN "Extracted" ELSE "Extracting"
  /\ steps' = steps + 1
  /\ UNCHANGED <<callbacks, scan, options, packed, batch, library, call, result,
                 nestedStatistics, frames, processedHashes, currentPath,
                 statistics, removed, decoderCalls, sevenZipInitialized>>

NextDecoder ==
  \/ ExtractArchive
  \/ InitializeFails
  \/ StartDecoder
  \/ DecoderCloses
  \/ DecoderTimesOut
  \/ CompleteTopLevel

SpecDecoder == InitDecoder /\ [][NextDecoder]_vars

\* C30: every decoder invocation ends.  An invocation whose process never
\* finishes is ended by the timeout, whether or not a progress callback was
\* supplied: the step that settles it is enabled.
C30_InvocationEnds == pc = "Hung" => ENABLED DecoderTimesOut

(***************************************************************************)
(* Progress callbacks of one extraction: _extractWithProgress hands the    *)
(* first "<digits>%" of every chunk of the decoder's output to onProgress  *)
(* (C31).                                                                  *)
(***************************************************************************)
MaxChunks == 3     \* chunks of output with a percentage in one extraction

\* the numbers in front of the first % of a chunk
Percentages == {0, 50, 100}

\* one extractArchive call with a progress callback, no candidates
InitProgress ==
  /\ options = [maxPasswordAttempts |-> DefaultMaxPasswordAttempts,
                handleNested |-> FALSE,
                maxNestingDepth |-> 5,
                maxTotalNestedArchives |-> 50,
                enableCycleDetection |-> TRUE,
                nestedCleanupMode |-> "success",
                onProgress |-> TRUE]
  /\ library = <<>>
  /\ call = [archiveFile |-> PlainFile("a.zip", 1), passwords |-> <<>>]
  /\ packed = {}
  /\ InitCommon

\* child.stdout.on('data'): the chunk matches /(\d+)%/ and the number is
\* handed to onProgress
DecoderOutput ==
  /\ pc \in {"Decoding", "Hung"}
  /\ options.onProgress
  /\ Len(callbacks) < MaxChunks
  /\ \E percentage \in Percentages :
       callbacks' = Append(callbacks, [name |-> "onProgress",
                                       percentage |-> percentage])
  /\ UNCHANGED <<scan, options, packed, batch, library, call, pc, unit, result,
                 nestedStatistics, frames, processedHashes, currentPath,
                 statistics, removed, decoderCalls, sevenZipInitialized, steps>>

NextProgress ==
  \/ ExtractArchive
  \/ InitializeFails
  \/ StartDecoder
  \/ DecoderOutput
  \/ DecoderCloses
  \/ CompleteTopLevel

SpecProgress == InitProgress /\ [][NextProgress]_vars

\* C31: the percentages handed to the progress callback during one
\* extraction never decrease, and when the extraction has succeeded the
\* last one handed over is 100.
C31_ProgressMonotone ==
  /\ \A j, k \in 1..Len(callbacks) :
       j < k => callbacks[j].percentage <= callbacks[k].percentage
  /\ (pc = "Done" /\ result.success) =>
       /\ callbacks # <<>>
       /\ callbacks[Len(callbacks)].percentage = 100

(***************************************************************************)
(* Nesting levels in the result tree, checked under Spec (C32).            *)
(***************************************************************************)
\* the results of the sequence are at level k, their children one deeper
RECURSIVE LevelsFrom(_, _)
LevelsFrom(results, k) ==
  \A n \in 1..Len(results) :
    /\ results[n].nestingLevel = k
    /\ LevelsFrom(results[n].nestedArchives, k + 1)

\* C32: the nestingLevel of a nested result is its depth in the result
\* tree: 1 for the children of the top-level result, k + 1 for the children
\* of a result at level k.
C32_LevelIsDepth ==
  /\ result.nestingLevel = 0
  /\ LevelsFrom(result.nestedArchives, 1)
  /\ \A j \in 1..Len(frames) :
       /\ frames[j].depth = j - 1
       /\ LevelsFrom(frames[j].results, j)

\* a result at level 2 below a result at level 1 in the returned tree
C32_Witness ==
  /\ pc = "Done"
  /\ result.success
  /\ \E n \in 1..Len(result.nestedArchives) :
       /\ result.nestedArchives[n].nestingLevel = 1
       /\ result.nestedArchives[n].nestedArchives # <<>>
       /\ result.nestedArchives[n].nestedArchives[1].nestingLevel = 2

(***************************************************************************)
(* The walk of fileScanner.scanForArchives over a tree on disk, and        *)
(* extractCommand around it (C33, C34).                                    *)
(***************************************************************************)
MaxEntries == 2       \* entries in one directory
ScanMaxDepth == 10    \* maxDepth as extractCommand passes it

\* the files the tree is made of: two archives and a text file
WalkNames ==
  {Movie \o <<Word("zip")>>, Movie \o <<Word("rar")>>,
   <<Word("notes"), Word("txt")>>}

\* a directory entry that is a file; statSync on it works or throws
FileEntries(directory) ==
  [kind : {"file"},
   file : {DiskFile(fileName, directory, 100, FALSE) : fileName \in WalkNames},
   statable : BOOLEAN, readable : {TRUE}, entries : {<<>>}]

\* the entries of a sequence carry different names
DistinctNames(entries) ==
  \A j, k \in 1..Len(entries) :
    (j # k /\ entries[j].kind = "file" /\ entries[k].kind = "file")
      => entries[j].file.fileName # entries[k].file.fileName

\* the subdirectory e: readdirSync on it works or throws
SubDirectories ==
  {[kind |-> "dir", file |-> DiskFile(<<Word("e")>>, "d", 0, FALSE),
    statable |-> TRUE, readable |-> readable, entries |-> entries] :
     readable \in BOOLEAN,
     entries \in {s \in SeqsUpTo(FileEntries("e"), MaxEntries) : DistinctNames(s)}}

\* an entry that is neither a file nor a directory
OtherEntry ==
  [kind |-> "other", file |-> DiskFile(<<Word("pipe")>>, "d", 0, FALSE),
   statable |-> TRUE, readable |-> TRUE, entries |-> <<>>]

\* what scanPath can be: nothing, a file, something else, or the directory
\* d with files and at most one subdirectory
Roots ==
  {[kind |-> "missing", readable |-> FALSE, entries |-> <<>>],
   [kind |-> "other", readable |-> FALSE, entries |-> <<>>]}
  \cup {[kind |-> "file", readable |-> TRUE, entries |-> <<entry>>] :
          entry \in FileEntries("d")}
  \cup {[kind |-> "dir", readable |-> readable, entries |-> entries] :
          readable \in BOOLEAN,
          entries \in {s \in SeqsUpTo(FileEntries("d") \cup SubDirectories
                                        \cup {OtherEntry}, MaxEntries) :
                         /\ DistinctNames(s)
                         /\ \A j, k \in 1..Len(s) : j # k => s[j].kind # "dir"
                                                             \/ s[k].kind # "dir"}}

\* a walk that gives up at the first directory it cannot read
RECURSIVE ScanDirectoryAborts(_, _, _)
ScanDirectoryAborts(dir, currentDepth, maxDepth) ==
  IF currentDepth >= maxDepth \/ ~dir.readable THEN <<>>
  ELSE IF dir.entries = <<>> THEN <<>>
  ELSE LET entry == Head(dir.entries)
           rest == [dir EXCEPT !.entries = Tail(@)]
       IN IF entry.kind = "file"
            THEN <<entry>> \o ScanDirectoryAborts(rest, currentDepth, maxDepth)
          ELSE IF entry.kind = "dir" /\ ~entry.readable
            THEN <<>>
          ELSE IF entry.kind = "dir"
            THEN ScanDirectoryAborts(entry, currentDepth + 1, maxDepth)
                   \o ScanDirectoryAborts(rest, currentDepth, maxDepth)
          ELSE ScanDirectoryAborts(rest, currentDepth, maxDepth)

\* scanDirectory (recursive true, no hidden entries): the files pushed on
\* foundFiles, in order; a readdirSync that throws is caught and pushes
\* nothing
RECURSIVE ScanDirectory(_, _, _)
ScanDirectory(dir, currentDepth, maxDepth) ==
  IF currentDepth >= maxDepth \/ ~dir.readable THEN <<>>
  ELSE IF dir.entries = <<>> THEN <<>>
  ELSE LET entry == Head(dir.entries)
           rest == [dir EXCEPT !.entries = Tail(@)]
       IN IF entry.kind = "file"
            THEN <<entry>> \o ScanDirectory(rest, currentDepth, maxDepth)
          ELSE IF entry.kind = "dir"
            THEN ScanDirectory(entry, currentDepth + 1, maxDepth)
                   \o ScanDirectory(rest, currentDepth, maxDepth)
          ELSE ScanDirectory(rest, currentDepth, maxDepth)

\* the filter loop of scanForArchives up to isArchiveFile: a statSync that
\* throws is caught inside the loop
Accessible(foundFiles) ==
  LET statable(entry) == entry.statable
      kept == SelectSeq(foundFiles, statable)
  IN [k \in 1..Len(kept) |-> kept[k].file]

\* a scanForArchives that takes whatever exists for a directory
ScanPathAnything(root, maxDepth) ==
  IF root.kind = "missing"
    THEN [error |-> "Invalid path", units |-> <<>>]
    ELSE ScanForArchives(Accessible(ScanDirectory(root, 0, maxDepth)))

\* scanForArchives(scanPath, {maxDepth})
ScanPath(root, maxDepth) ==
  IF root.kind = "missing"
    THEN [error |-> "Invalid path", units |-> <<>>]
  ELSE IF root.kind = "file"
    THEN ScanForArchives(Accessible(root.entries))
  ELSE IF root.kind = "dir"
    THEN ScanForArchives(Accessible(ScanDirectory(root, 0, maxDepth)))
  ELSE [error |-> "Invalid path", units |-> <<>>]

\* extractCommand is called on a scan path
InitWalk ==
  /\ options = [maxPasswordAttempts |-> DefaultMaxPasswordAttempts,
                handleNested |-> TRUE,
                maxNestingDepth |-> 1,
                maxTotalNestedArchives |-> MaxTotalCfg,
                enableCycleDetection |-> TRUE,
                nestedCleanupMode |-> "success"]
  /\ library = <<>>
  /\ call = [archiveFile |-> PlainFile("a.zip", 1), passwords |-> <<>>]
  /\ packed = {}
  /\ pc = "Command"
  /\ \E root \in Roots :
       scan = [root |-> root, scanned |-> [error |-> Null, units |-> <<>>],
               destination |-> FALSE, extracting |-> 0]
  /\ batch = NoBatch
  /\ unit = NoUnit
  /\ result = ExtractionResult(call.archiveFile, <<0>>)
  /\ nestedStatistics = <<>>
  /\ frames = <<>>
  /\ processedHashes = {}
  /\ currentPath = <<>>
  /\ statistics = ZeroStatistics
  /\ removed = {}
  /\ decoderCalls = 0
  /\ sevenZipInitialized = FALSE
  /\ callbacks = <<>>
  /\ steps = 0

\* extractCommand, step 1: scanForArchives returns, or throws and the catch
\* of extractCommand prints the error and exits
ExtractCommandScans ==
  /\ pc = "Command"
  /\ scan' = [scan EXCEPT !.scanned = ScanPath(scan.root, ScanMaxDepth)]
  /\ pc' = IF scan'.scanned.error # Null THEN "Exited" ELSE "Found"
  /\ UNCHANGED <<callbacks, options, library, call, packed, batch, unit, result,
                 nestedStatistics, frames, processedHashes, currentPath,
                 statistics, removed, decoderCalls, sevenZipInitialized, steps>>

\* extractCommand, steps 3 and 4: the destination is made and
\* extractArchives is started on the units found
ExtractCommandExtracts ==
  /\ pc = "Found"
  /\ scan' = [scan EXCEPT !.destination = TRUE,
                          !.extracting = Len(scan.scanned.units)]
  /\ pc' = "Extraction"
  /\ UNCHANGED <<callbacks, options, library, call, packed, batch, unit, result,
                 nestedStatistics, frames, processedHashes, currentPath,
                 statistics, removed, decoderCalls, sevenZipInitialized, steps>>

NextWalk ==
  \/ ExtractCommandScans
  \/ ExtractCommandExtracts

SpecWalk == InitWalk /\ [][NextWalk]_vars

\* C33: scanForArchives fails with InvalidPath when the root does not exist
\* or is neither a regular file nor a directory, and then the command ends
\* before anything is extracted: no destination is made, no extraction is
\* started, no decoder is called.
C33_InvalidPathAborts ==
  (pc # "Command" /\ scan.root.kind \notin {"file", "dir"}) =>
    /\ scan.scanned.error = "Invalid path"
    /\ scan.scanned.units = <<>>
    /\ pc = "Exited"
    /\ ~scan.destination
    /\ scan.extracting = 0
    /\ decoderCalls = 0
    /\ ~ENABLED ExtractCommandExtracts

\* the scan path is something that is neither a file nor a directory, and
\* the command has ended
C33_Witness ==
  /\ pc = "Exited"
  /\ scan.root.kind = "other"
  /\ scan.scanned.error = "Invalid path"

\* the archive files of the tree that the walk can read: entries of a
\* readable directory on which statSync works
EligibleArchives(root) ==
  LET level(dir) == IF dir.readable
                      THEN {dir.entries[k] : k \in 1..Len(dir.entries)}
                      ELSE {}
      top == level(root)
      below == UNION {level(entry) : entry \in {e \in top : e.kind = "dir"}}
  IN {entry.file : entry \in {e \in top \cup below :
                                /\ e.kind = "file"
                                /\ e.statable
                                /\ IsArchiveFile(e.file)}}

\* C34: a file or directory that cannot be read during the walk is skipped
\* and the walk goes on: every archive file the walk can read is returned,
\* whatever else in the tree is unreadable, and the scan fails only when
\* there is none.
C34_UnreadableSkipped ==
  (pc # "Command" /\ scan.root.kind = "dir") =>
    LET units == scan.scanned.units
        returned == {[fileName |-> units[k].fileName,
                      directory |-> units[k].directory] : k \in 1..Len(units)}
        eligible == {[fileName |-> file.fileName, directory |-> file.directory] :
                       file \in EligibleArchives(scan.root)}
    IN /\ returned = eligible
       /\ (scan.scanned.error = Null) = (eligible # {})
       /\ scan.scanned.error \in {Null, "No archive files found"}

\* a subdirectory that cannot be read comes first, a file that cannot be
\* stat'ed is in the tree, and an archive after them is returned
C34_Witness ==
  /\ pc = "Found"
  /\ scan.root.kind = "dir"
  /\ Len(scan.root.entries) = 2
  /\ scan.root.entries[1].kind = "dir"
  /\ ~scan.root.entries[1].readable
  /\ scan.root.entries[1].entries # <<>>
  /\ scan.root.entries[2].kind = "file"
  /\ scan.root.entries[2].statable
  /\ Len(scan.scanned.units) = 1

\* a file on which statSync throws lies before an archive that is returned
C34_WitnessStat ==
  /\ pc = "Found"
  /\ scan.root.kind = "dir"
  /\ Len(scan.root.entries) = 2
  /\ scan.root.entries[1].kind = "file"
  /\ ~scan.root.entries[1].statable
  /\ IsArchiveFile(scan.root.entries[1].file)
  /\ Len(scan.scanned.units) = 1

(***************************************************************************)
(* scanForArchives of the ES module archiveProcessor.js (C35, C36).        *)
(***************************************************************************)
MaxItems == 2         \* entries in one directory of the scanned tree
EsmMaxDepth == 7      \* the default maxDepth of scanForArchives

\* a file of the tree: its content is an archive or not, and it can be
\* opened or not
Items ==
  [kind : {"file"}, archive : BOOLEAN, accessible : BOOLEAN,
   readable : {TRUE}, items : {<<>>}]

\* a subdirectory with files only; readdir on it works or throws
SubDirs ==
  [kind : {"dir"}, archive : {FALSE}, accessible : {TRUE},
   readable : BOOLEAN, items : SeqsUpTo(Items, MaxItems)]

\* dirPath: it does not exist, or it is a directory of files and
\* subdirectories
Trees ==
  {[kind |-> "missing", readable |-> FALSE, items |-> <<>>]}
  \cup [kind : {"dir"}, readable : BOOLEAN,
        items : SeqsUpTo(Items \cup SubDirs, MaxItems)]

\* an isArchive that looks at the content without opening the file
IsArchiveUnopened(item) == item.archive

\* isArchive(filePath) of the ES module sevenZip.js: true for an archive,
\* false for anything else and for a file it cannot open
IsArchive(item) == item.accessible /\ item.archive

\* items.filter(item => item.isFile()) and the same for directories
ItemsOfKind(items, kind) ==
  LET isKind(item) == item.kind = kind
  IN SelectSeq(items, isKind)

\* a check that calls every directory without subdirectories real content
CheckIfRealContentFlat(dir) ==
  ItemsOfKind(dir.items, "dir") = <<>>

\* checkIfRealContent(currentDir, items)
CheckIfRealContent(dir) ==
  LET dirs == ItemsOfKind(dir.items, "dir")
      files == ItemsOfKind(dir.items, "file")
      subFiles == IF dirs # <<>> /\ dirs[1].readable
                    THEN ItemsOfKind(dirs[1].items, "file")
                    ELSE <<>>
  IN IF subFiles # <<>> THEN ~IsArchive(subFiles[1])
     ELSE IF files # <<>> THEN ~IsArchive(files[1])
     ELSE TRUE

\* scanDir(currentDir, currentNestingLevel): the archives pushed, from item
\* k of the directory on; filePath is the position of the file in the tree.
\* Whatever is thrown in the loop ends the loop, and what was pushed stays.
RECURSIVE ScanDirFrom(_, _, _, _)
ScanDirFrom(dir, filePath, currentNestingLevel, k) ==
  IF k > Len(dir.items) THEN <<>>
  ELSE LET item == dir.items[k]
           rest == ScanDirFrom(dir, filePath, currentNestingLevel, k + 1)
       IN IF item.kind = "file"
            THEN IF ~IsArchive(item) THEN rest
                 ELSE IF ~item.accessible THEN <<>>     \* fs.stat throws
                 ELSE <<[filePath |-> filePath \o <<k>>,
                         nestingLevel |-> currentNestingLevel]>> \o rest
          ELSE (IF ~item.readable
                     \/ (currentNestingLevel >= 1 /\ CheckIfRealContent(item))
                  THEN <<>>
                  ELSE ScanDirFrom(item, filePath \o <<k>>,
                                   currentNestingLevel, 1))
               \o rest

\* scanForArchives(dirPath, {nestingLevel}) with recursive and maxDepth at
\* their defaults: the list returned
EsmScanForArchives(dir, nestingLevel) ==
  IF nestingLevel > EsmMaxDepth THEN <<>>
  ELSE IF ~dir.readable THEN <<>>
  ELSE IF nestingLevel >= 1 /\ CheckIfRealContent(dir) THEN <<>>
  ELSE ScanDirFrom(dir, <<>>, nestingLevel, 1)

\* scanForArchives is about to be called on a tree, flat or nested
InitEsmScan ==
  /\ options = [maxPasswordAttempts |-> DefaultMaxPasswordAttempts,
                handleNested |-> TRUE,
                maxNestingDepth |-> 1,
                maxTotalNestedArchives |-> MaxTotalCfg,
                enableCycleDetection |-> TRUE,
                nestedCleanupMode |-> "success"]
  /\ library = <<>>
  /\ call = [archiveFile |-> PlainFile("a.zip", 1), passwords |-> <<>>]
  /\ packed = {}
  /\ pc = "EsmScan"
  /\ \E dir \in Trees, nestingLevel \in {0, 1} :
       scan = [dirPath |-> dir, nestingLevel |-> nestingLevel,
               archives |-> <<>>, raised |-> FALSE]
  /\ batch = NoBatch
  /\ unit = NoUnit
  /\ result = ExtractionResult(call.archiveFile, <<0>>)
  /\ nestedStatistics = <<>>
  /\ frames = <<>>
  /\ processedHashes = {}
  /\ currentPath = <<>>
  /\ statistics = ZeroStatistics
  /\ removed = {}
  /\ decoderCalls = 0
  /\ sevenZipInitialized = FALSE
  /\ callbacks = <<>>
  /\ steps = 0

\* the call returns; nothing in scanForArchives is outside a try except the
\* depth test, so nothing is raised
EsmScanReturns ==
  /\ pc = "EsmScan"
  /\ scan' = [scan EXCEPT
                !.archives = EsmScanForArchives(scan.dirPath, scan.nestingLevel),
                !.raised = FALSE]
  /\ pc' = "EsmScanned"
  /\ UNCHANGED <<callbacks, options, library, call, packed, batch, unit, result,
                 nestedStatistics, frames, processedHashes, currentPath,
                 statistics, removed, decoderCalls, sevenZipInitialized, steps>>

NextEsmScan == EsmScanReturns

SpecEsmScan == InitEsmScan /\ [][NextEsmScan]_vars

\* the positions of the archive files that can be opened, in the
\* directory itself (sub = 0) or in its readable subdirectory number sub
OpenArchivesAt(dir, sub) ==
  IF sub = 0
    THEN {<<k>> : k \in {j \in 1..Len(dir.items) :
                           /\ dir.items[j].kind = "file"
                           /\ dir.items[j].archive
                           /\ dir.items[j].accessible}}
    ELSE {<<sub, k>> : k \in {j \in 1..Len(dir.items[sub].items) :
                                /\ dir.items[sub].readable
                                /\ dir.items[sub].items[j].archive
                                /\ dir.items[sub].items[j].accessible}}

\* the positions returned by the call
ReturnedPaths ==
  {scan.archives[k].filePath : k \in 1..Len(scan.archives)}

C35_WitnessMissing ==
  /\ pc = "EsmScanned"
  /\ scan.dirPath.kind = "missing"
  /\ scan.archives = <<>>

\* the file the real-content check looks at: the first file of the first
\* subdirectory, or else the first file of the directory itself; <<>> when
\* there is none
FirstFile(dir) ==
  LET firstOf(items) ==
        IF \E k \in 1..Len(items) : items[k].kind = "file"
          THEN <<items[CHOOSE k \in 1..Len(items) :
                         /\ items[k].kind = "file"
                         /\ \A j \in 1..(k - 1) : items[j].kind # "file"]>>
          ELSE <<>>
      firstDir == IF \E k \in 1..Len(dir.items) : dir.items[k].kind = "dir"
                    THEN <<dir.items[CHOOSE k \in 1..Len(dir.items) :
                             /\ dir.items[k].kind = "dir"
                             /\ \A j \in 1..(k - 1) : dir.items[j].kind # "dir"]>>
                    ELSE <<>>
      inFirstDir == IF firstDir # <<>> /\ firstDir[1].readable
                      THEN firstOf(firstDir[1].items)
                      ELSE <<>>
  IN IF inFirstDir # <<>> THEN inFirstDir ELSE firstOf(dir.items)

\* the directory is real content: the file looked at is not an archive, or
\* the directory has no entries
JudgedRealContent(dir) ==
  \/ dir.items = <<>>
  \/ /\ FirstFile(dir) # <<>>
     /\ ~(FirstFile(dir)[1].archive /\ FirstFile(dir)[1].accessible)

\* the file looked at is an archive
FirstFileIsArchive(dir) ==
  /\ FirstFile(dir) # <<>>
  /\ FirstFile(dir)[1].archive
  /\ FirstFile(dir)[1].accessible

\* the subdirectories of the root, by position
SubDirsOfRoot ==
  {sub \in 1..Len(scan.dirPath.items) : scan.dirPath.items[sub].kind = "dir"}

C36_WitnessFlat ==
  /\ pc = "EsmScanned"
  /\ scan.nestingLevel = 0
  /\ JudgedRealContent(scan.dirPath)
  /\ ReturnedPaths # {}

(***************************************************************************)
(* A call whose onNestedFound callback may raise (C37, C38).               *)
(***************************************************************************)
\* one call with an onNestedFound callback, no passwords anywhere
InitNestedFound ==
  /\ options \in [maxPasswordAttempts : {DefaultMaxPasswordAttempts},
                  handleNested : {TRUE},
                  maxNestingDepth : 1..MaxDepthCfg,
                  maxTotalNestedArchives : {MaxTotalCfg},
                  enableCycleDetection : BOOLEAN,
                  nestedCleanupMode : {"success"},
                  onNestedFound : {TRUE}]
  /\ library = <<>>
  /\ call = [archiveFile |-> PlainFile("a.zip", 1), passwords |-> <<>>]
  /\ packed = NestedFiles
  /\ InitCommon

\* one iteration of the for loop in which onNestedFound raises: the name is
\* on the path and the unit is counted, the call is outside the inner try,
\* so the catch around the loop takes it and processNestedArchives returns
\* what it has
OnNestedFoundRaises ==
  /\ pc = "Recursing"
  /\ options.onNestedFound
  /\ TopFrame.idx <= Len(TopFrame.found)
  /\ LET f == TopFrame
         nestedArchive == f.found[f.idx]
         check == DetectCycle(nestedArchive, processedHashes, currentPath)
     IN /\ ~check.cycle
        /\ processedHashes' = check.hashes
        /\ currentPath' = Append(currentPath, nestedArchive.fileName)
        /\ statistics' = [statistics EXCEPT !.totalProcessed = @ + 1]
        /\ callbacks' = Append(callbacks, [name |-> "onNestedFound",
                                           depth |-> f.depth,
                                           raised |-> TRUE])
        /\ frames' = [frames EXCEPT ![Len(frames)].idx = Len(f.found) + 1]
  /\ steps' = steps + 1
  /\ UNCHANGED <<scan, options, packed, batch, library, call, pc, unit, result,
                 nestedStatistics, removed, decoderCalls, sevenZipInitialized>>

NextNestedFound ==
  \/ ExtractArchive
  \/ DecodeAttempt
  \/ InitializeFails
  \/ CompleteTopLevel
  \/ ProcessNestedArchives
  \/ ExtractNestedArchive
  \/ OnNestedFoundRaises
  \/ CompleteNested
  \/ ReturnNested

SpecNestedFound == InitNestedFound /\ [][NextNestedFound]_vars

\* C37: every push on the recursion-path stack is matched by a pop, also
\* when an extraction, a rescan or onNestedFound raises: the length of the
\* stack is the number of nested units being processed, and the stack is
\* empty when the top-level call ends.
C37_PathBalanced ==
  /\ Len(currentPath) = Max(0, Len(frames) - 1)
                          + (IF NestedUnitInFlight THEN 1 ELSE 0)
  /\ pc = "Done" => currentPath = <<>>

\* C38: when a top-level call ends, totalProcessed = successfulExtractions
\* + failedExtractions and totalProcessed is the number of nested results in
\* the result tree; units skipped as cycles are counted in cyclesDetected
\* only, and cleanedFiles <= successfulExtractions.
C38_CountersAgree ==
  (pc = "Done" /\ nestedStatistics # <<>>) =>
    LET stats == nestedStatistics[1]
    IN /\ stats.totalProcessed
            = stats.successfulExtractions + stats.failedExtractions
       /\ stats.totalProcessed = NestedCount(result.nestedArchives)
       /\ stats.successfulExtractions = NestedSuccesses(result.nestedArchives)
       /\ stats.cleanedFiles <= stats.successfulExtractions

(***************************************************************************)
(* The output directories of the units of a batch (C39).  A directory is   *)
(* named by the segments of its name; the destination holds a set of them. *)
(***************************************************************************)
MaxBatchUnits == 3    \* archives in one batch

\* the file names of a batch: two with the same base name, and one whose
\* base name is what a name conflict of the others is resolved to
OutputFileNames ==
  {<<Word("a"), Word("zip")>>, <<Word("a"), Word("7z")>>,
   <<Word("b"), Word("zip")>>, <<Word("a(1)"), Word("zip")>>}

\* path.parse(fileName).name: the name without its last extension
PathParseName(fileName) ==
  IF Len(fileName) > 1 THEN Front(fileName) ELSE fileName

\* `${archiveName}(${counter})`
WithCounter(archiveName, counter) ==
  Front(archiveName)
    \o <<Word(Last(archiveName).w \o "(" \o ToString(counter) \o ")")>>

\* the while loop of _createArchiveOutputDir from counter on
RECURSIVE FirstFree(_, _, _)
FirstFree(archiveName, counter, existing) ==
  IF WithCounter(archiveName, counter) \in existing
    THEN FirstFree(archiveName, counter + 1, existing)
    ELSE WithCounter(archiveName, counter)

\* _createArchiveOutputDir(archiveFile, baseOutputDir): the directory made
CreateArchiveOutputDir(fileName, existing) ==
  IF PathParseName(fileName) \in existing
    THEN FirstFree(PathParseName(fileName), 1, existing)
    ELSE PathParseName(fileName)

\* archiveOutputDir of archiveProcessor.extractArchives
EsmArchiveOutputDir(fileName, existing) == PathParseName(fileName)

\* a batch of archives with different file names is about to be extracted
\* into a destination that may hold directories already
InitOutputDirs ==
  /\ options = [maxPasswordAttempts |-> DefaultMaxPasswordAttempts,
                handleNested |-> FALSE,
                maxNestingDepth |-> 1,
                maxTotalNestedArchives |-> MaxTotalCfg,
                enableCycleDetection |-> TRUE,
                nestedCleanupMode |-> "success"]
  /\ library = <<>>
  /\ call = [archiveFile |-> PlainFile("a.zip", 1), passwords |-> <<>>]
  /\ packed = {}
  /\ pc = "OutputDirs"
  /\ \E api \in {"extractMultipleArchives", "extractArchives"},
        archives \in {s \in SeqsUpTo(OutputFileNames, MaxBatchUnits) :
                        \A j, k \in 1..Len(s) : j # k => s[j] # s[k]},
        existing \in SUBSET {<<Word("a")>>, <<Word("a(1)")>>} :
       scan = [api |-> api, archives |-> archives, i |-> 0,
               initial |-> existing, existing |-> existing,
               targets |-> <<>>, reused |-> FALSE]
  /\ batch = NoBatch
  /\ unit = NoUnit
  /\ result = ExtractionResult(call.archiveFile, <<0>>)
  /\ nestedStatistics = <<>>
  /\ frames = <<>>
  /\ processedHashes = {}
  /\ currentPath = <<>>
  /\ statistics = ZeroStatistics
  /\ removed = {}
  /\ decoderCalls = 0
  /\ sevenZipInitialized = FALSE
  /\ callbacks = <<>>
  /\ steps = 0

\* the unit at position i + 1 is extracted into the directory dir
ExtractInto(dir) ==
  scan' = [scan EXCEPT !.i = @ + 1,
                       !.existing = @ \cup {dir},
                       !.targets = Append(@, dir),
                       !.reused = @ \/ dir \in scan.existing]

\* one unit of ArchiveExtractor.extractMultipleArchives:
\* _extractSingleArchive makes its directory and extracts into it
ClassUnitOutputDir ==
  /\ pc = "OutputDirs"
  /\ scan.api = "extractMultipleArchives"
  /\ scan.i < Len(scan.archives)
  /\ ExtractInto(CreateArchiveOutputDir(scan.archives[scan.i + 1], scan.existing))
  /\ UNCHANGED <<callbacks, options, library, call, packed, batch, pc, unit,
                 result, nestedStatistics, frames, processedHashes, currentPath,
                 statistics, removed, decoderCalls, sevenZipInitialized, steps>>

\* one unit of archiveProcessor.extractArchives: the decoder is pointed at
\* archiveOutputDir
EsmUnitOutputDir ==
  /\ pc = "OutputDirs"
  /\ scan.api = "extractArchives"
  /\ scan.i < Len(scan.archives)
  /\ ExtractInto(EsmArchiveOutputDir(scan.archives[scan.i + 1], scan.existing))
  /\ UNCHANGED <<callbacks, options, library, call, packed, batch, pc, unit,
                 result, nestedStatistics, frames, processedHashes, currentPath,
                 statistics, removed, decoderCalls, sevenZipInitialized, steps>>

\* the batch returns
OutputDirsReturn ==
  /\ pc = "OutputDirs"
  /\ scan.i = Len(scan.archives)
  /\ pc' = "Returned"
  /\ UNCHANGED <<callbacks, scan, options, library, call, packed, batch, unit,
                 result, nestedStatistics, frames, processedHashes, currentPath,
                 statistics, removed, decoderCalls, sevenZipInitialized, steps>>

NextOutputDirs ==
  \/ ClassUnitOutputDir
  \/ EsmUnitOutputDir
  \/ OutputDirsReturn

SpecOutputDirs == InitOutputDirs /\ [][NextOutputDirs]_vars

\* no two units of the batch got the same directory, and none got a
\* directory that was there before it
DistinctTargets ==
  /\ \A j, k \in 1..Len(scan.targets) :
       j # k => scan.targets[j] # scan.targets[k]
  /\ \A k \in 1..Len(scan.targets) : scan.targets[k] \notin scan.initial
  /\ ~scan.reused

\* the same for the batches of ArchiveExtractor alone
ClassPathDistinct ==
  scan.api = "extractMultipleArchives" => DistinctTargets

\* C39: within one batch no two units are extracted into the same output
\* directory: a.zip and a.7z get distinct directories, and a directory that
\* already exists is never reused, on both batch paths.
C39_DistinctOutputDirs ==
  pc \in {"OutputDirs", "Returned"} => DistinctTargets

(***************************************************************************)
(* The callbacks of archiveProcessor.extractArchives (C40).                *)
(***************************************************************************)
\* what the caller's onArchiveComplete does: it returns, it throws the
\* first time it is called for an archive, it throws every time
CompleteBehaviours == {"returns", "raises once", "raises"}

\* Math.round(((i + 1) / n) * 100) for position = i + 1
RoundedPercent(position, n) == (200 * position + n) \div (2 * n)

\* a call of one of the callbacks with position i + 1 of n; carried tells
\* whether the result handed over has its nestedArchives
CallbackCall(name, position, n, success, carried) ==
  [name |-> name, position |-> position, n |-> n, success |-> success,
   carried |-> carried, percentage |-> 0]

\* the call onProgress(percentage)
ProgressCall(position, n) ==
  [name |-> "onProgress", position |-> position, n |-> n, success |-> FALSE,
   carried |-> FALSE, percentage |-> RoundedPercent(position, n)]

\* processNestedArchives(archiveOutputDir, ...) has run for the archive
NestedProcessed(position, n) ==
  [name |-> "processNestedArchives", position |-> position, n |-> n,
   success |-> TRUE, carried |-> FALSE, percentage |-> 0]

\* extractArchives is handed a batch and the three callbacks
InitCallbacks ==
  /\ options = [maxPasswordAttempts |-> DefaultMaxPasswordAttempts,
                handleNested |-> TRUE,
                maxNestingDepth |-> 1,
                maxTotalNestedArchives |-> MaxTotalCfg,
                enableCycleDetection |-> TRUE,
                nestedCleanupMode |-> "success",
                onProgress |-> TRUE,
                onArchiveStart |-> TRUE,
                onArchiveComplete |-> TRUE]
  /\ library = <<>>
  /\ packed = BatchNestedFiles
  /\ batch \in [api : {"extractArchives"},
                archives : SeqsUpTo(EsmFiles, MaxBatch),
                passwords : {<<>>, <<"p1", "p2">>}, i : {0}, results : {<<>>}]
  /\ call = [archiveFile |-> PlainFile("a.zip", 1), passwords |-> <<>>]
  /\ pc = "EsmStart"
  /\ scan = NoScan
  /\ unit = NoUnit
  /\ result = ExtractionResult(call.archiveFile, <<0>>)
  /\ nestedStatistics = <<>>
  /\ frames = <<>>
  /\ processedHashes = {}
  /\ currentPath = <<>>
  /\ statistics = ZeroStatistics
  /\ removed = {}
  /\ decoderCalls = 0
  /\ sevenZipInitialized = FALSE
  /\ callbacks = <<>>
  /\ steps = 0

\* one iteration of the for loop of extractArchives with its callbacks:
\* onArchiveStart, the attempts, the result pushed, onArchiveComplete, then
\* the nested archives of a success, then onProgress; whatever is thrown
\* between the attempts and the nested processing is taken by the catch,
\* which pushes a failed result and calls onArchiveComplete itself
ExtractArchivesNotify ==
  /\ batch.api = "extractArchives"
  /\ pc = "EsmLoop"
  /\ options.onArchiveComplete
  /\ batch.i < Len(batch.archives)
  /\ \E first \in EsmOutcomes,
        outcomes \in [1..Len(batch.passwords) -> EsmOutcomes],
        nested \in EsmNestedResults,
        complete \in CompleteBehaviours :
       LET archive == batch.archives[batch.i + 1]
           position == batch.i + 1
           n == Len(batch.archives)
           started == Append(callbacks,
                             CallbackCall("onArchiveStart", position, n, FALSE, FALSE))
           tried == EsmTryPasswords(first, outcomes, batch.passwords)
           pushed == [result |-> EsmResult(archive, tried, <<position>>, <<>>),
                      nestedStatistics |-> <<>>]
           final == [result |-> EsmResult(archive, tried, <<position>>, nested),
                     nestedStatistics |-> <<>>]
           caught(message) == [result |-> EsmCaught(archive, message),
                               nestedStatistics |-> <<>>]
           firstCall == CallbackCall("onArchiveComplete", position, n,
                                     tried.success, FALSE)
           catchCall == CallbackCall("onArchiveComplete", position, n, FALSE, FALSE)
       IN IF archive.fileName = Null
            THEN \* path.parse throws before any attempt
                 /\ nested = <<>> /\ first = "ok"
                 /\ \A k \in 1..Len(outcomes) : outcomes[k] = "ok"
                 /\ batch' = [batch EXCEPT
                                !.i = @ + 1,
                                !.results = Append(@,
                                  caught("The path argument must be of type string"))]
                 /\ UNCHANGED decoderCalls
                 /\ IF complete = "returns"
                      THEN /\ callbacks' = started \o <<catchCall, ProgressCall(position, n)>>
                           /\ UNCHANGED pc
                      ELSE /\ callbacks' = Append(started, catchCall)
                           /\ pc' = "Rejected"
          ELSE /\ tried.success \/ nested = <<>>
               /\ decoderCalls' = decoderCalls + tried.calls
               /\ IF complete = "returns"
                    THEN /\ batch' = [batch EXCEPT !.i = @ + 1,
                                                   !.results = Append(@, final)]
                         /\ callbacks' =
                              started \o <<firstCall>>
                                \o (IF tried.success
                                      THEN <<NestedProcessed(position, n)>>
                                      ELSE <<>>)
                                \o <<ProgressCall(position, n)>>
                         /\ UNCHANGED pc
                  ELSE IF complete = "raises once"
                    THEN /\ batch' = [batch EXCEPT
                                        !.i = @ + 1,
                                        !.results = @ \o <<pushed, caught("callback")>>]
                         /\ callbacks' = started \o <<firstCall, catchCall,
                                                      ProgressCall(position, n)>>
                         /\ UNCHANGED pc
                  ELSE /\ batch' = [batch EXCEPT
                                      !.i = @ + 1,
                                      !.results = @ \o <<pushed, caught("callback")>>]
                       /\ callbacks' = started \o <<firstCall, catchCall>>
                       /\ pc' = "Rejected"
  /\ UNCHANGED <<scan, options, library, call, packed, unit, result,
                 nestedStatistics, frames, processedHashes, currentPath,
                 statistics, removed, sevenZipInitialized, steps>>

NextCallbacks ==
  \/ ExtractArchivesMkdir
  \/ ExtractArchivesNotify
  \/ ExtractArchivesReturn

SpecCallbacks == InitCallbacks /\ [][NextCallbacks]_vars

\* the calls of the caller's callbacks for the archive at a position
CallsFor(position) ==
  LET mine(c) == c.position = position /\ c.name # "processNestedArchives"
  IN SelectSeq(callbacks, mine)

\* the callbacks of a finished iteration came in order, once each
OrderedOnce(position) ==
  /\ Len(CallsFor(position)) = 3
  /\ CallsFor(position)[1].name = "onArchiveStart"
  /\ CallsFor(position)[2].name = "onArchiveComplete"
  /\ CallsFor(position)[3].name = "onProgress"
  /\ \A k \in 1..3 : CallsFor(position)[k].n = Len(batch.archives)

\* C40: for every archive of extractArchives the callbacks run in the order
\* onArchiveStart, onArchiveComplete, onProgress, each exactly once with
\* position i of n, and onArchiveComplete for a successful archive comes
\* only after its nested archives have been processed, with a result that
\* carries nestedArchives.
C40_CallbackOrder ==
  (batch.api = "extractArchives" /\ pc \in {"EsmLoop", "Returned"}) =>
    /\ \A position \in 1..batch.i : OrderedOnce(position)
    /\ \A k \in 1..Len(callbacks) :
         (callbacks[k].name = "onArchiveComplete" /\ callbacks[k].success) =>
           /\ callbacks[k].carried
           /\ \E j \in 1..(k - 1) :
                /\ callbacks[j].name = "processNestedArchives"
                /\ callbacks[j].position = callbacks[k].position

\* the part of C40 that the code keeps when no callback throws: order,
\* once each, position i of n, and the percentage of onProgress
OrderWhenNothingThrown ==
  (pc \in {"EsmLoop", "Returned"}
     /\ \A k \in 1..Len(batch.results) : batch.results[k].result.error # "callback") =>
    \A position \in 1..batch.i :
      /\ OrderedOnce(position)
      /\ CallsFor(position)[3].percentage
           = RoundedPercent(position, Len(batch.archives))

====
